---- MODULE Spec2Model ----
(***************************************************************************)
(* Navigation and view-synchronization engine of the terminal feed reader  *)
(* (src/src/app.rs, src/src/navigation.rs, src/src/db.rs, src/src/main.rs).*)
(*                                                                         *)
(* The store is the three SQLite tables the engine reads and writes.  The  *)
(* interactive loop of main() owns the App state; every key handler is one *)
(* atomic action, as is the handling of one completion notification.  A    *)
(* background refresh task is a small program counter machine whose steps  *)
(* interleave with the loop; each step that touches the store does so      *)
(* under the store mutex, hence atomically.                                *)
(***************************************************************************)
EXTENDS Integers, Sequences, FiniteSets, TLC

(***************************************************************************)
(* Bounds of the model and constants of the program.                       *)
(***************************************************************************)
\* Slots for refresh tasks that are in flight at the same time.
MaxTasks == 2
\* Refresh tasks spawned in one run of the program.
MaxLaunches == 2
\* Longest list of entries one fetch of a feed returns.
MaxEntries == 2
\* Most unread posts one category holds in the stores of the digest model.
MaxPerCategory == 17
MaxStored == 102

\* LIMIT 100 of get_posts and get_posts_by_category.
PostLimit == 100
\* per_category_limit passed by reload_posts_for_active_node.
FreshPerCategory == 15
\* per_category_limit passed by App::new.
StartupPerCategory == 10
\* Capacity of the completion channel.
QueueCapacity == 10
\* pub_date of a post without publish date (None; NULL in the table).  It is
\* below every date: NULL sorts last under ORDER BY ... DESC, and None is the
\* least Option value under cmp.
NoDate == 0

Min(a, b) == IF a <= b THEN a ELSE b

(***************************************************************************)
(* Navigation nodes (navigation.rs).                                       *)
(***************************************************************************)
SmartView(name) == [kind |-> "SmartView", name |-> name]
Category(name) == [kind |-> "Category", name |-> name]

Fresh == SmartView("Fresh")
Starred == SmartView("Starred")
ReadLater == SmartView("ReadLater")
Archived == SmartView("Archived")

\* SmartView::all(): the fixed order of the smart views in the sidebar.
SmartViewsAll == <<Fresh, Starred, ReadLater, Archived>>

\* Category names the model uses, in the order ORDER BY name lists them.
CatNames == <<"General", "Tech", "Work">>

\* App::message is None.  The texts of the messages are written without the
\* icon some of them start with.
NoMessage == "<none>"

\* The lock around the store handle: the set of the refresh tasks that hold
\* it.  The interactive loop takes and drops it within one step.
Unlocked == {}

(***************************************************************************)
(* State.                                                                  *)
(***************************************************************************)
VARIABLES
    \* store (db.rs): tables feeds, categories, posts
    feedsTbl, catsTbl, postsTbl,
    \* App (app.rs)
    posts, focus, active_node, selected_index, message, is_loading,
    input_mode, show_read, exit,
    \* SidebarState (navigation.rs)
    categories, section, smart_view_index, category_index, counts,
    last_fetched,
    \* App (app.rs): the feed list of the category feed editor
    category_feeds, category_feed_index,
    \* runtime (main.rs): spawned refresh tasks and the completion channel
    tasks, queue,
    \* history: the numbers of tasks spawned and of notifications handled
    launched, processed,
    \* Arc<Mutex<Database>>: the holders of the lock around the store handle
    lock

storeVars == <<feedsTbl, catsTbl, postsTbl>>
listVars == <<posts, selected_index>>
cursorVars == <<section, smart_view_index, category_index>>
sidebarVars == <<categories, section, smart_view_index, category_index,
                 counts, last_fetched>>
appVars == <<posts, focus, active_node, selected_index, message, is_loading,
             input_mode, show_read, exit>>
editorVars == <<category_feeds, category_feed_index>>
runtimeVars == <<tasks, queue, launched, processed>>
vars == <<storeVars, appVars, sidebarVars, editorVars, runtimeVars, lock>>

(***************************************************************************)
(* Store queries (db.rs).  A table is a set of rows.                       *)
(***************************************************************************)
\* ORDER BY p.pub_date DESC: later dates first, rows without date last.
\* Rows of equal date come in rowid order, the order of the table scan.
SqlBefore(p, q) ==
    \/ p.pub_date > q.pub_date
    \/ p.pub_date = q.pub_date /\ p.id < q.id

\* The row at position i is the one that i - 1 rows come before.
OrderByPubDateDesc(rows) ==
    LET before == [p \in rows |-> Cardinality({q \in rows : SqlBefore(q, p)})]
    IN  [i \in 1..Cardinality(rows) |-> CHOOSE p \in rows : before[p] = i - 1]

\* LIMIT n
Limit(s, n) == SubSeq(s, 1, Min(n, Len(s)))

\* posts p JOIN feeds f ON p.feed_id = f.id
HasFeed(p, F) == \E f \in F : f.id = p.feed_id
CategoryOfPost(p, F) == (CHOOSE f \in F : f.id = p.feed_id).category

PostFilter(unread, bookmarked, archived, read_later) ==
    [only_unread |-> unread, only_bookmarked |-> bookmarked,
     only_archived |-> archived, only_read_later |-> read_later]

MatchesFilter(p, filter) ==
    /\ filter.only_unread => ~p.is_read
    /\ filter.only_bookmarked => p.is_bookmarked
    /\ filter.only_archived => p.is_archived
    /\ filter.only_read_later => p.is_read_later

\* Fault: the query has no LIMIT.
get_posts_unlimited(P, F, filter) ==
    OrderByPubDateDesc({p \in P : HasFeed(p, F) /\ MatchesFilter(p, filter)})

get_posts(P, F, filter) ==
    Limit(OrderByPubDateDesc({p \in P : HasFeed(p, F) /\ MatchesFilter(p, filter)}),
          PostLimit)

get_posts_by_category(P, F, cat) ==
    Limit(OrderByPubDateDesc({p \in P : HasFeed(p, F) /\ CategoryOfPost(p, F) = cat}),
          PostLimit)

get_feeds(F) == F

get_feeds_by_category(F, cat) == {f \in F : f.category = cat}

\* SELECT DISTINCT name FROM (categories UNION feeds.category) ORDER BY name
get_categories(C, F) ==
    SelectSeq(CatNames, LAMBDA c : c \in C \/ \E f \in F : f.category = c)

\* Vec::sort_by(|a, b| b.pub_date.cmp(&a.pub_date)): a stable sort, so posts
\* of equal date keep the order they have in the input.
RECURSIVE InsertByDateDesc(_, _)
InsertByDateDesc(p, sorted) ==
    IF sorted = <<>> THEN <<p>>
    ELSE IF Head(sorted).pub_date >= p.pub_date
         THEN <<Head(sorted)>> \o InsertByDateDesc(p, Tail(sorted))
         ELSE <<p>> \o sorted

RECURSIVE SortByDateDesc(_)
SortByDateDesc(s) ==
    IF s = <<>> THEN <<>>
    ELSE InsertByDateDesc(s[Len(s)], SortByDateDesc(SubSeq(s, 1, Len(s) - 1)))

\* The rows one category contributes to the digest:
\* WHERE f.category = ?1 AND p.is_read = 0 ORDER BY p.pub_date DESC LIMIT ?2
FreshOfCategory(P, F, cat, per_category_limit) ==
    Limit(OrderByPubDateDesc({p \in P : /\ HasFeed(p, F)
                                        /\ CategoryOfPost(p, F) = cat
                                        /\ ~p.is_read}),
          per_category_limit)

RECURSIVE FreshConcat(_, _, _, _)
FreshConcat(P, F, cats, per_category_limit) ==
    IF cats = <<>> THEN <<>>
    ELSE FreshOfCategory(P, F, Head(cats), per_category_limit)
         \o FreshConcat(P, F, Tail(cats), per_category_limit)

\* Fault: the final sort is left out, the categories' rows stay concatenated.
get_fresh_feed_unsorted(P, F, C, per_category_limit) ==
    FreshConcat(P, F, get_categories(C, F), per_category_limit)

get_fresh_feed(P, F, C, per_category_limit) ==
    SortByDateDesc(FreshConcat(P, F, get_categories(C, F), per_category_limit))

\* The counting queries update_counts issues.
CountUnread(P) == Cardinality({p \in P : ~p.is_read})
CountBookmarked(P) == Cardinality({p \in P : p.is_bookmarked})
CountReadLater(P) == Cardinality({p \in P : p.is_read_later})
CountArchived(P) == Cardinality({p \in P : p.is_archived})
CountCategory(P, F, cat) ==
    Cardinality({p \in P : HasFeed(p, F) /\ CategoryOfPost(p, F) = cat})

(***************************************************************************)
(* Store writes (db.rs).                                                   *)
(***************************************************************************)
\* rowid of a new row of a table whose primary key is INTEGER PRIMARY KEY.
NextRowId(rows) ==
    IF rows = {} THEN 1
    ELSE (CHOOSE r \in rows : \A o \in rows : o.id <= r.id).id + 1

\* Fault: a plain INSERT into a table whose url column is not UNIQUE.
insert_post_unchecked(P, feed_id, url, pub_date) ==
    P \cup {[id |-> NextRowId(P), feed_id |-> feed_id, url |-> url,
             pub_date |-> pub_date, is_read |-> FALSE,
             is_bookmarked |-> FALSE, is_archived |-> FALSE,
             is_read_later |-> FALSE]}

\* Fault: INSERT OR REPLACE, the stored row of the URL gives way to a new one.
insert_post_replaces(P, feed_id, url, pub_date) ==
    {p \in P : p.url # url}
        \cup {[id |-> NextRowId(P), feed_id |-> feed_id, url |-> url,
               pub_date |-> pub_date, is_read |-> FALSE,
               is_bookmarked |-> FALSE, is_archived |-> FALSE,
               is_read_later |-> FALSE]}

\* INSERT OR IGNORE INTO posts: url is UNIQUE; the flags take their default 0.
insert_post(P, feed_id, url, pub_date) ==
    IF \E p \in P : p.url = url THEN P
    ELSE P \cup {[id |-> NextRowId(P), feed_id |-> feed_id, url |-> url,
                  pub_date |-> pub_date, is_read |-> FALSE,
                  is_bookmarked |-> FALSE, is_archived |-> FALSE,
                  is_read_later |-> FALSE]}

mark_as_read(P, post_id) ==
    {IF p.id = post_id THEN [p EXCEPT !.is_read = TRUE] ELSE p : p \in P}

mark_as_unread(P, post_id) ==
    {IF p.id = post_id THEN [p EXCEPT !.is_read = FALSE] ELSE p : p \in P}

db_toggle_bookmark(P, post_id) ==
    {IF p.id = post_id THEN [p EXCEPT !.is_bookmarked = ~@] ELSE p : p \in P}

mark_as_archived(P, post_id) ==
    {IF p.id = post_id THEN [p EXCEPT !.is_archived = ~@] ELSE p : p \in P}

mark_as_read_later(P, post_id) ==
    {IF p.id = post_id THEN [p EXCEPT !.is_read_later = ~@] ELSE p : p \in P}

delete_post(P, post_id) == {p \in P : p.id # post_id}

\* Fault: the feeds of the category are deleted with it.
delete_category_feeds_drops(F, name) == {f \in F : f.category # name}

\* delete_category, first statement:
\* UPDATE feeds SET category = 'General' WHERE category = ?1
delete_category_feeds(F, name) ==
    {IF f.category = name THEN [f EXCEPT !.category = "General"] ELSE f : f \in F}

\* Fault: the DELETE has lost its WHERE clause.
delete_category_names_all(C, name) == {}

\* delete_category, second statement: DELETE FROM categories WHERE name = ?1
delete_category_names(C, name) == C \ {name}

\* delete_feed, first statement: DELETE FROM posts WHERE feed_id = ?1
delete_feed_posts(P, feed_id) == {p \in P : p.feed_id # feed_id}

\* delete_feed, second statement: DELETE FROM feeds WHERE id = ?1
delete_feed_row(F, feed_id) == {f \in F : f.id # feed_id}

(***************************************************************************)
(* The feeds of the model and what the remote side may serve for each.     *)
(***************************************************************************)
Feed(id, url, category) == [id |-> id, url |-> url, category |-> category]

\* A feed-rs entry as fetch_feeds_for_node reads it: the links, and the
\* published and updated timestamps (NoDate when absent).
Entry(links, published, updated) ==
    [links |-> links, published |-> published, updated |-> updated]

\* Feed "fa" is filed under General and feed "fb" under Tech.  Both serve an
\* entry for the URL "u2"; "u1" and "u3" carry the same publish date.
EntryPool(url) ==
    IF url = "fa"
    THEN {Entry(<<"u1", "alt">>, 2, 1), Entry(<<"u2">>, NoDate, NoDate)}
    ELSE {Entry(<<"u2">>, NoDate, 1), Entry(<<"u3">>, 2, NoDate)}

\* What one successful fetch of a feed may return.
Responses(url) == UNION {[1..n -> EntryPool(url)] : n \in 0..MaxEntries}

Post(id, feed_id, url, pub_date, r, b, a, l) ==
    [id |-> id, feed_id |-> feed_id, url |-> url, pub_date |-> pub_date,
     is_read |-> r, is_bookmarked |-> b, is_archived |-> a,
     is_read_later |-> l]

FeedRows == {Feed(1, "fa", "General"), Feed(2, "fb", "Tech")}

(***************************************************************************)
(* SidebarState (navigation.rs).                                           *)
(***************************************************************************)
load_categories(C, F) ==
    LET cs == get_categories(C, F)
    IN  IF cs = <<>> THEN <<"General">> ELSE cs

CategoryNodes(cats) == {Category(cats[i]) : i \in 1..Len(cats)}

\* HashMap::insert for the four smart views and for every listed category;
\* the entries of other keys stay as they are.
update_counts(old, cats, P, F) ==
    [n \in DOMAIN old \cup {Fresh, Starred, ReadLater, Archived}
                      \cup CategoryNodes(cats) |->
        IF n = Fresh THEN CountUnread(P)
        ELSE IF n = Starred THEN CountBookmarked(P)
        ELSE IF n = ReadLater THEN CountReadLater(P)
        ELSE IF n = Archived THEN CountArchived(P)
        ELSE IF n \in CategoryNodes(cats) THEN CountCategory(P, F, n.name)
        ELSE old[n]]

\* Indices are those of the program (from 0); sequences are indexed from 1.
selected_node(sec, sv_index, cat_index, cats) ==
    IF sec = "SmartViews" THEN SmartViewsAll[sv_index + 1]
    ELSE IF cat_index < Len(cats) THEN Category(cats[cat_index + 1])
    ELSE Fresh

\* Fault: the node is not recorded.
mark_fetched_forgets(fetched, node) == fetched

mark_fetched(fetched, node) == fetched \cup {node}

(***************************************************************************)
(* App (app.rs): the operations as functions of the state they read.       *)
(***************************************************************************)
\* The match of reload_posts_for_active_node.
Materialize(node, show, P, F, C) ==
    IF node = Fresh
    THEN IF show THEN get_posts(P, F, PostFilter(FALSE, FALSE, FALSE, FALSE))
         ELSE get_fresh_feed(P, F, C, FreshPerCategory)
    ELSE IF node = Starred
    THEN get_posts(P, F, PostFilter(FALSE, TRUE, FALSE, FALSE))
    ELSE IF node = ReadLater
    THEN get_posts(P, F, PostFilter(FALSE, FALSE, FALSE, TRUE))
    ELSE IF node = Archived
    THEN get_posts(P, F, PostFilter(FALSE, FALSE, TRUE, FALSE))
    ELSE get_posts_by_category(P, F, node.name)

\* if selected_index >= posts.len() && !posts.is_empty() { len - 1 }
Clamp(index, len) == IF index >= len /\ len # 0 THEN len - 1 ELSE index

\* Vec::remove(index)
RemoveAt(s, index) ==
    SubSeq(s, 1, index) \o SubSeq(s, index + 2, Len(s))

\* Vec::retain
Retain(s, Keep(_)) == SelectSeq(s, Keep)

\* iter().position(..).unwrap_or(0)
PositionOr0(s, post_id) ==
    IF \E i \in 1..Len(s) : s[i].id = post_id
    THEN (CHOOSE i \in 1..Len(s) :
            s[i].id = post_id /\ \A j \in 1..(i - 1) : s[j].id # post_id) - 1
    ELSE 0

HasSelected == selected_index < Len(posts)
SelectedPost == posts[selected_index + 1]

\* Fault: the interactive loop reaches the store without the lock.
db_unlocked == TRUE

\* self.db.lock().unwrap(): the caller waits until nobody holds the lock.
\* The interactive loop drops the guard before the handler returns, so a
\* handler takes the lock and gives it back within its step.
db_lock == lock = Unlocked

\* reload_posts_for_active_node, reading the store as the step leaves it.
reload_posts_for_active_node ==
    /\ db_lock
    /\ posts' = Materialize(active_node', show_read', postsTbl', feedsTbl', catsTbl')
    /\ selected_index' = Clamp(selected_index, Len(posts'))

\* refresh_sidebar, reading the store as the step leaves it.
refresh_sidebar ==
    /\ db_lock
    /\ categories' = load_categories(catsTbl', feedsTbl')
    /\ counts' = update_counts(counts, categories', postsTbl', feedsTbl')

(***************************************************************************)
(* Input modes and confirmation actions (app.rs).                          *)
(***************************************************************************)
NoAction == [kind |-> "None", id |-> 0, name |-> ""]
DeletePost(id) == [kind |-> "DeletePost", id |-> id, name |-> ""]
DeleteCategory(name) == [kind |-> "DeleteCategory", id |-> 0, name |-> name]

Normal == [kind |-> "Normal", action |-> NoAction]
Welcome == [kind |-> "Welcome", action |-> NoAction]
Confirming(action) == [kind |-> "Confirming", action |-> action]
\* EditingCategoryFeeds(String): the name of the category is the payload.
EditingCategoryFeeds(cat) ==
    [kind |-> "EditingCategoryFeeds",
     action |-> [kind |-> "None", id |-> 0, name |-> cat]]

(***************************************************************************)
(* Refresh tasks (main.rs, fetch_feeds_for_node).                          *)
(***************************************************************************)
TaskIds == 1..MaxTasks

\* The rows of a SELECT over feeds, in the order of the table scan.
RECURSIVE FeedsInRowOrder(_)
FeedsInRowOrder(rows) ==
    IF rows = {} THEN <<>>
    ELSE LET first == CHOOSE f \in rows : \A g \in rows : f.id <= g.id
         IN  <<first>> \o FeedsInRowOrder(rows \ {first})

\* feeds_list: all feeds for a smart view, the category's feeds for a category.
FeedsForNode(F, node) ==
    IF node.kind = "SmartView" THEN FeedsInRowOrder(get_feeds(F))
    ELSE FeedsInRowOrder(get_feeds_by_category(F, node.name))

\* A task: where it stands, its target node, the feeds it has still to visit,
\* and (history) the feeds whose fetch failed and the feeds of its node in
\* the store when it was spawned.
IdleTask ==
    [pc |-> "idle", node |-> Fresh, feeds_list |-> <<>>, failed |-> {},
     launch_feeds |-> <<>>]
SpawnedTask(node) ==
    [pc |-> "spawned", node |-> node, feeds_list |-> <<>>, failed |-> {},
     launch_feeds |-> FeedsForNode(feedsTbl, node)]

\* tokio::spawn(fetch_feeds_for_node(db, node, tx)): the task takes a free slot.
Spawn(ts, node) ==
    LET t == CHOOSE i \in TaskIds :
                 ts[i].pc = "idle" /\ \A j \in TaskIds : ts[j].pc = "idle" => i <= j
    IN  [ts EXCEPT ![t] = SpawnedTask(node)]

CanSpawn(ts) == \E i \in TaskIds : ts[i].pc = "idle"

InFlight(ts) == {i \in TaskIds : ts[i].pc # "idle"}

\* entry.links.first().map(|l| l.href).unwrap_or_default()
EntryUrl(e) == IF e.links = <<>> THEN "" ELSE Head(e.links)

\* entry.published.or(entry.updated)
EntryPubDate(e) == IF e.published # NoDate THEN e.published ELSE e.updated

\* for entry in feed_data.entries { insert_post(feed_meta.id, ...) }
RECURSIVE Ingest(_, _, _)
Ingest(P, feed_id, entries) ==
    IF entries = <<>> THEN P
    ELSE Ingest(insert_post(P, feed_id, EntryUrl(Head(entries)),
                            EntryPubDate(Head(entries))),
                feed_id, Tail(entries))

(***************************************************************************)
(* Initial state: App::new(db) and main() up to the event loop.            *)
(***************************************************************************)
InitOn(store) ==
    /\ feedsTbl = store.feeds
    /\ catsTbl = store.cats
    /\ postsTbl = store.posts
    /\ categories = load_categories(store.cats, store.feeds)
    /\ counts = update_counts(<<>>, categories, store.posts, store.feeds)
    /\ last_fetched = {}
    /\ section = "SmartViews"
    /\ smart_view_index = 0
    /\ category_index = 0
    /\ active_node = Fresh
    /\ posts = IF store.feeds # {}
               THEN get_fresh_feed(store.posts, store.feeds, store.cats,
                                   StartupPerCategory)
               ELSE <<>>
    /\ focus = "Sidebar"
    /\ selected_index = 0
    /\ message = NoMessage
    /\ is_loading = (store.feeds # {})
    /\ input_mode = IF store.feeds = {} THEN Welcome ELSE Normal
    /\ show_read = FALSE
    /\ exit = FALSE
    /\ category_feeds = <<>>
    /\ category_feed_index = 0
    /\ lock = Unlocked
    /\ queue = <<>>
    /\ tasks = IF store.feeds # {}
               THEN Spawn([i \in TaskIds |-> IdleTask], Fresh)
               ELSE [i \in TaskIds |-> IdleTask]
    /\ launched = IF store.feeds # {} THEN 1 ELSE 0
    /\ processed = 0

(***************************************************************************)
(* The event loop of main(): key events.                                   *)
(***************************************************************************)
\* A key press reaches the handler of the input mode unless a message is
\* shown; the confirmation dialog takes keys whether or not one is shown.
KeyIn(kind) ==
    /\ ~exit
    /\ input_mode.kind = kind
    /\ message = NoMessage \/ kind = "Confirming"

NormalKey(pane) == KeyIn("Normal") /\ focus = pane

\* Any key while a message is shown: the message is cleared, the key dropped.
DismissMessage ==
    /\ ~exit
    /\ message # NoMessage
    /\ input_mode.kind # "Confirming"
    /\ message' = NoMessage
    /\ UNCHANGED <<storeVars, posts, focus, active_node, selected_index,
                   is_loading, input_mode, show_read, exit, sidebarVars,
                   runtimeVars, editorVars, lock>>

\* 'q': the loop ends; the tasks in flight are abandoned with the process.
Quit ==
    /\ KeyIn("Normal")
    /\ exit' = TRUE
    /\ UNCHANGED <<storeVars, posts, focus, active_node, selected_index,
                   message, is_loading, input_mode, show_read, sidebarVars,
                   runtimeVars, editorVars, lock>>

focus_left(pane) ==
    IF pane = "Article" THEN "Posts" ELSE "Sidebar"

focus_right(pane) ==
    IF pane = "Sidebar" THEN "Posts" ELSE pane

tab_focus(pane) ==
    IF pane = "Sidebar" THEN "Posts" ELSE "Sidebar"

backtab_focus(pane) ==
    IF pane = "Sidebar" THEN "Posts"
    ELSE IF pane = "Posts" THEN "Sidebar" ELSE "Posts"

\* 'h', 'l', Tab and BackTab are taken before the pane handlers see the key.
MoveFocus ==
    /\ KeyIn("Normal")
    /\ \E to \in {focus_left(focus), focus_right(focus), tab_focus(focus),
                   backtab_focus(focus)} : focus' = to
    /\ UNCHANGED <<storeVars, posts, active_node, selected_index, message,
                   is_loading, input_mode, show_read, exit, sidebarVars,
                   runtimeVars, editorVars, lock>>

Cursor(sec, sv_index, cat_index) ==
    [section |-> sec, smart_view_index |-> sv_index, category_index |-> cat_index]

\* SidebarState::next
sidebar_next(sec, sv_index, cat_index, cats) ==
    IF sec = "SmartViews"
    THEN IF sv_index < Len(SmartViewsAll) - 1
         THEN Cursor(sec, sv_index + 1, cat_index)
         ELSE Cursor("Categories", sv_index, 0)
    ELSE IF cats # <<>> /\ cat_index < Len(cats) - 1
         THEN Cursor(sec, sv_index, cat_index + 1)
         ELSE Cursor(sec, sv_index, cat_index)

\* Fault: the cursor wraps from the first smart view to the last category.
sidebar_previous_wraps(sec, sv_index, cat_index, cats) ==
    IF sec = "SmartViews"
    THEN IF sv_index > 0
         THEN Cursor(sec, sv_index - 1, cat_index)
         ELSE Cursor("Categories", sv_index, Len(cats) - 1)
    ELSE IF cat_index > 0
         THEN Cursor(sec, sv_index, cat_index - 1)
         ELSE Cursor("SmartViews", Len(SmartViewsAll) - 1, cat_index)

\* SidebarState::previous
sidebar_previous(sec, sv_index, cat_index, cats) ==
    IF sec = "SmartViews"
    THEN IF sv_index > 0
         THEN Cursor(sec, sv_index - 1, cat_index)
         ELSE Cursor(sec, sv_index, cat_index)
    ELSE IF cat_index > 0
         THEN Cursor(sec, sv_index, cat_index - 1)
         ELSE Cursor("SmartViews", Len(SmartViewsAll) - 1, cat_index)

SetCursor(c) ==
    /\ section' = c.section
    /\ smart_view_index' = c.smart_view_index
    /\ category_index' = c.category_index

SetCursorTo(c) ==
    /\ section = c.section
    /\ smart_view_index = c.smart_view_index
    /\ category_index = c.category_index

\* Fault: moving the cursor activates the node it lands on.
SidebarMoveActivates ==
    /\ NormalKey("Sidebar")
    /\ \/ SetCursor(sidebar_next(section, smart_view_index, category_index, categories))
       \/ SetCursor(sidebar_previous(section, smart_view_index, category_index, categories))
    /\ active_node' = selected_node(section', smart_view_index', category_index', categories)
    /\ posts' = Materialize(active_node', show_read, postsTbl, feedsTbl, catsTbl)
    /\ selected_index' = 0
    /\ UNCHANGED <<storeVars, focus, message, is_loading, input_mode, show_read,
                   exit, categories, counts, last_fetched, runtimeVars, editorVars, lock>>

\* 'j' / 'k' in the sidebar
SidebarMove ==
    /\ NormalKey("Sidebar")
    /\ \/ SetCursor(sidebar_next(section, smart_view_index, category_index, categories))
       \/ SetCursor(sidebar_previous(section, smart_view_index, category_index, categories))
    /\ UNCHANGED <<storeVars, appVars, categories, counts, last_fetched,
                   runtimeVars, editorVars, lock>>

\* Enter in the sidebar: App::select_sidebar_item
SelectSidebarItem ==
    /\ NormalKey("Sidebar")
    /\ db_lock
    /\ active_node' = selected_node(section, smart_view_index, category_index, categories)
    /\ posts' = Materialize(active_node', show_read, postsTbl, feedsTbl, catsTbl)
    /\ selected_index' = 0
    /\ focus' = "Posts"
    /\ UNCHANGED <<storeVars, message, is_loading, input_mode, show_read,
                   exit, sidebarVars, runtimeVars, editorVars, lock>>

\* App::next_post
next_post(index, len) ==
    IF len # 0 /\ index < len - 1 THEN index + 1 ELSE index

\* App::previous_post
previous_post(index) == IF index > 0 THEN index - 1 ELSE index

\* 'j' / 'k' in the post list
MoveSelection ==
    /\ NormalKey("Posts")
    /\ \/ selected_index' = next_post(selected_index, Len(posts))
       \/ selected_index' = previous_post(selected_index)
    /\ UNCHANGED <<storeVars, posts, focus, active_node, message, is_loading,
                   input_mode, show_read, exit, sidebarVars, runtimeVars, editorVars, lock>>

\* App::open_article.  The post is marked read and stays in the list; the
\* sidebar is refreshed only for the unread digest.  ok: the write to the
\* store succeeds; its Err is dropped (let _ =), here and in the toggles.
open_article(ok) ==
    /\ HasSelected
    /\ db_lock
    /\ postsTbl' = IF ok THEN mark_as_read(postsTbl, SelectedPost.id)
                 ELSE postsTbl
    /\ posts' = [posts EXCEPT ![selected_index + 1].is_read = TRUE]
    /\ focus' = "Article"
    /\ UNCHANGED <<feedsTbl, catsTbl>>
    /\ IF ~show_read /\ active_node = Fresh
       THEN refresh_sidebar
       ELSE UNCHANGED <<categories, counts>>
    /\ UNCHANGED <<active_node, selected_index, message, is_loading,
                   input_mode, show_read, exit, cursorVars, last_fetched,
                   runtimeVars, editorVars, lock>>

\* Enter in the post list
OpenArticle == NormalKey("Posts") /\ open_article(TRUE)

\* The same key when the write to the store fails: the Err is dropped.
OpenArticleWriteFails ==
    NormalKey("Posts") /\ open_article(FALSE)

\* App::remove_read_posts: the list without its read posts.
remove_read_posts_list(list) == Retain(list, LAMBDA p : ~p.is_read)

\* App::remove_read_posts: the index of the post selected before, or 0.
remove_read_posts_index(list, index) ==
    LET kept == remove_read_posts_list(list)
        moved == IF index < Len(list)
                 THEN PositionOr0(kept, list[index + 1].id)
                 ELSE index
    IN  Clamp(moved, Len(kept))

\* Esc / Backspace in the article view: App::close_article
CloseArticle ==
    /\ NormalKey("Article")
    /\ focus' = "Posts"
    /\ IF ~show_read /\ active_node = Fresh
       THEN /\ posts' = remove_read_posts_list(posts)
            /\ selected_index' = remove_read_posts_index(posts, selected_index)
       ELSE UNCHANGED <<posts, selected_index>>
    /\ UNCHANGED <<storeVars, active_node, message, is_loading, input_mode,
                   show_read, exit, sidebarVars, runtimeVars, editorVars, lock>>

\* Fault: the membership rule is not applied, the post stays listed.
toggled_list_keeps(list, index, updated, leaves) ==
    [list EXCEPT ![index + 1] = updated]

\* Fault: the post leaves the list on every toggle.
toggled_list_drops(list, index, updated, leaves) == RemoveAt(list, index)

\* The tail of a flag toggle: the post leaves the list when the membership
\* rule says so, else its copy in the list takes the new flag.
toggled_list(list, index, updated, leaves) ==
    IF leaves THEN RemoveAt(list, index)
    ELSE [list EXCEPT ![index + 1] = updated]

toggled_index(list, index, leaves) ==
    IF leaves THEN Clamp(index, Len(list) - 1) ELSE index

\* App::toggle_bookmark
toggle_bookmark(ok) ==
    /\ HasSelected
    /\ LET updated == [SelectedPost EXCEPT !.is_bookmarked = ~@]
           leaves == ~updated.is_bookmarked /\ active_node = Starred
       IN  /\ postsTbl' = IF ok
                          THEN db_toggle_bookmark(postsTbl, SelectedPost.id)
                          ELSE postsTbl
           /\ posts' = toggled_list(posts, selected_index, updated, leaves)
           /\ selected_index' = toggled_index(posts, selected_index, leaves)
           /\ message' = IF updated.is_bookmarked THEN "Added to Starred"
                         ELSE "Removed from Starred"
    /\ UNCHANGED <<feedsTbl, catsTbl>>
    /\ refresh_sidebar
    /\ UNCHANGED <<focus, active_node, is_loading, input_mode, show_read,
                   exit, cursorVars, last_fetched, runtimeVars, editorVars, lock>>

\* 'b' in the post list or the article view
ToggleBookmark ==
    (NormalKey("Posts") \/ NormalKey("Article")) /\ toggle_bookmark(TRUE)

\* The same key when the write to the store fails: the Err is dropped.
ToggleBookmarkWriteFails ==
    (NormalKey("Posts") \/ NormalKey("Article")) /\ toggle_bookmark(FALSE)

\* App::toggle_archived
toggle_archived(ok) ==
    /\ HasSelected
    /\ LET updated == [SelectedPost EXCEPT !.is_archived = ~@]
           leaves == ~updated.is_archived /\ active_node = Archived
       IN  /\ postsTbl' = IF ok
                          THEN mark_as_archived(postsTbl, SelectedPost.id)
                          ELSE postsTbl
           /\ posts' = toggled_list(posts, selected_index, updated, leaves)
           /\ selected_index' = toggled_index(posts, selected_index, leaves)
           /\ message' = IF updated.is_archived THEN "Archived" ELSE "Unarchived"
    /\ UNCHANGED <<feedsTbl, catsTbl>>
    /\ refresh_sidebar
    /\ UNCHANGED <<focus, active_node, is_loading, input_mode, show_read,
                   exit, cursorVars, last_fetched, runtimeVars, editorVars, lock>>

\* 'a' in the post list or the article view
ToggleArchived ==
    (NormalKey("Posts") \/ NormalKey("Article")) /\ toggle_archived(TRUE)

\* The same key when the write to the store fails: the Err is dropped.
ToggleArchivedWriteFails ==
    (NormalKey("Posts") \/ NormalKey("Article")) /\ toggle_archived(FALSE)

\* App::toggle_read_later.  Both pane handlers bind it to 'l', a key that
\* handle_normal_input takes for focus_right before it reaches them.
toggle_read_later(ok) ==
    /\ HasSelected
    /\ LET updated == [SelectedPost EXCEPT !.is_read_later = ~@]
           leaves == ~updated.is_read_later /\ active_node = ReadLater
       IN  /\ postsTbl' = IF ok
                          THEN mark_as_read_later(postsTbl, SelectedPost.id)
                          ELSE postsTbl
           /\ posts' = toggled_list(posts, selected_index, updated, leaves)
           /\ selected_index' = toggled_index(posts, selected_index, leaves)
           /\ message' = IF updated.is_read_later THEN "Added to Read Later"
                         ELSE "Removed from Read Later"
    /\ UNCHANGED <<feedsTbl, catsTbl>>
    /\ refresh_sidebar
    /\ UNCHANGED <<focus, active_node, is_loading, input_mode, show_read,
                   exit, cursorVars, last_fetched, runtimeVars, editorVars, lock>>

ToggleReadLater ==
    (NormalKey("Posts") \/ NormalKey("Article")) /\ toggle_read_later(TRUE)

\* The same key when the write to the store fails: the Err is dropped.
ToggleReadLaterWriteFails ==
    (NormalKey("Posts") \/ NormalKey("Article")) /\ toggle_read_later(FALSE)

\* App::toggle_read
toggle_read(ok) ==
    /\ HasSelected
    /\ LET new_state == ~SelectedPost.is_read
           updated == [SelectedPost EXCEPT !.is_read = new_state]
           leaves == ~show_read /\ new_state /\ active_node = Fresh
       IN  /\ postsTbl' = IF ~ok THEN postsTbl
                          ELSE IF new_state
                          THEN mark_as_read(postsTbl, SelectedPost.id)
                          ELSE mark_as_unread(postsTbl, SelectedPost.id)
           /\ posts' = toggled_list(posts, selected_index, updated, leaves)
           /\ selected_index' = toggled_index(posts, selected_index, leaves)
           /\ message' = IF new_state THEN "Marked as read" ELSE "Marked as unread"
    /\ UNCHANGED <<feedsTbl, catsTbl>>
    /\ refresh_sidebar
    /\ UNCHANGED <<focus, active_node, is_loading, input_mode, show_read,
                   exit, cursorVars, last_fetched, runtimeVars, editorVars, lock>>

\* 'm' in the post list
ToggleRead == NormalKey("Posts") /\ toggle_read(TRUE)

\* The same key when the write to the store fails: the Err is dropped.
ToggleReadWriteFails ==
    NormalKey("Posts") /\ toggle_read(FALSE)

\* 'u' in the post list: App::toggle_show_read
ToggleShowRead ==
    /\ NormalKey("Posts")
    /\ show_read' = ~show_read
    /\ UNCHANGED <<storeVars, active_node>>
    /\ reload_posts_for_active_node
    /\ message' = IF show_read' THEN "Showing all posts" ELSE "Showing unread only"
    /\ UNCHANGED <<focus, is_loading, input_mode, exit, sidebarVars,
                   runtimeVars, editorVars, lock>>

\* 'd' in the post list: the deletion of the selected post awaits confirmation.
RequestDeletePost ==
    /\ NormalKey("Posts")
    /\ HasSelected
    /\ input_mode' = Confirming(DeletePost(SelectedPost.id))
    /\ UNCHANGED <<storeVars, posts, focus, active_node, selected_index,
                   message, is_loading, show_read, exit, sidebarVars,
                   runtimeVars, editorVars, lock>>

\* Fault: the affirmation deletes the post selected when 'y' is pressed, as
\* App::delete_selected_post would, not the post recorded with the request.
ConfirmDeleteSelectedPost ==
    /\ KeyIn("Confirming")
    /\ input_mode.action.kind = "DeletePost"
    /\ HasSelected
    /\ LET id == SelectedPost.id
       IN  /\ postsTbl' = delete_post(postsTbl, id)
           /\ posts' = Retain(posts, LAMBDA p : p.id # id)
           /\ selected_index' = Clamp(selected_index, Len(posts'))
    /\ UNCHANGED <<feedsTbl, catsTbl>>
    /\ refresh_sidebar
    /\ message' = "Post deleted"
    /\ input_mode' = Normal
    /\ UNCHANGED <<focus, active_node, is_loading, show_read, exit,
                   cursorVars, last_fetched, runtimeVars, editorVars, lock>>

\* 'y' on a pending DeletePost (handle_confirm_input)
ConfirmDeletePost ==
    /\ KeyIn("Confirming")
    /\ input_mode.action.kind = "DeletePost"
    /\ LET id == input_mode.action.id
       IN  /\ postsTbl' = delete_post(postsTbl, id)
           /\ posts' = Retain(posts, LAMBDA p : p.id # id)
           /\ selected_index' = Clamp(selected_index, Len(posts'))
    /\ UNCHANGED <<feedsTbl, catsTbl>>
    /\ refresh_sidebar
    /\ message' = "Post deleted"
    /\ input_mode' = Normal
    /\ UNCHANGED <<focus, active_node, is_loading, show_read, exit,
                   cursorVars, last_fetched, runtimeVars, editorVars, lock>>

\* 'y' on a pending DeletePost when delete_post returns Err: the list, the
\* sidebar and the message stay; the dialog is closed all the same.
ConfirmDeletePostFails ==
    /\ KeyIn("Confirming")
    /\ db_lock
    /\ input_mode.action.kind = "DeletePost"
    /\ input_mode' = Normal
    /\ UNCHANGED <<storeVars, posts, focus, active_node, selected_index,
                   message, is_loading, show_read, exit, sidebarVars,
                   runtimeVars, editorVars, lock>>

\* 'n' / Esc on a pending confirmation
DeclineConfirm ==
    /\ KeyIn("Confirming")
    /\ input_mode' = Normal
    /\ message' = NoMessage
    /\ UNCHANGED <<storeVars, posts, focus, active_node, selected_index,
                   is_loading, show_read, exit, sidebarVars, runtimeVars, editorVars, lock>>

\* Fault: a key the dialog does not know closes it.
ConfirmOtherKeyCloses ==
    /\ KeyIn("Confirming")
    /\ input_mode' = Normal
    /\ UNCHANGED <<storeVars, posts, focus, active_node, selected_index,
                   message, is_loading, show_read, exit, sidebarVars,
                   runtimeVars, editorVars, lock>>

\* Any other key on a pending confirmation: the arm `_ => {}`.
ConfirmOtherKey ==
    /\ KeyIn("Confirming")
    /\ UNCHANGED vars

\* Fault: the category General is not told apart from the others.
RequestDeleteAnyCategory ==
    /\ NormalKey("Sidebar")
    /\ section = "Categories"
    /\ category_index < Len(categories)
    /\ input_mode' = Confirming(DeleteCategory(categories[category_index + 1]))
    /\ UNCHANGED <<storeVars, posts, focus, active_node, selected_index,
                   message, is_loading, show_read, exit, sidebarVars,
                   runtimeVars, editorVars, lock>>

\* 'd' in the sidebar with the cursor on a category: General is refused with
\* a message, the deletion of any other category awaits confirmation.
RequestDeleteCategory ==
    /\ NormalKey("Sidebar")
    /\ section = "Categories"
    /\ category_index < Len(categories)
    /\ LET cat == categories[category_index + 1]
       IN  IF cat = "General"
           THEN /\ message' = "Cannot delete 'General' category"
                /\ UNCHANGED input_mode
           ELSE /\ input_mode' = Confirming(DeleteCategory(cat))
                /\ UNCHANGED message
    /\ UNCHANGED <<storeVars, posts, focus, active_node, selected_index,
                   is_loading, show_read, exit, sidebarVars, runtimeVars,
                   editorVars, lock>>

\* format!("Category '{}' deleted", name)
CategoryDeleted(name) == "Category '" \o name \o "' deleted"

\* 'y' on a pending DeleteCategory (handle_confirm_input)
ConfirmDeleteCategory ==
    /\ KeyIn("Confirming")
    /\ input_mode.action.kind = "DeleteCategory"
    /\ LET name == input_mode.action.name
       IN  /\ feedsTbl' = delete_category_feeds(feedsTbl, name)
           /\ catsTbl' = delete_category_names(catsTbl, name)
           /\ message' = CategoryDeleted(name)
    /\ UNCHANGED <<postsTbl, active_node, show_read>>
    /\ refresh_sidebar
    /\ reload_posts_for_active_node
    /\ input_mode' = Normal
    /\ UNCHANGED <<focus, is_loading, exit, cursorVars, last_fetched,
                   runtimeVars, editorVars, lock>>

\* 'y' on a pending DeleteCategory when delete_category returns Err, at its
\* first statement or at its second, which leaves the first one done.
ConfirmDeleteCategoryFails ==
    /\ KeyIn("Confirming")
    /\ db_lock
    /\ input_mode.action.kind = "DeleteCategory"
    /\ \/ feedsTbl' = feedsTbl
       \/ feedsTbl' = delete_category_feeds(feedsTbl, input_mode.action.name)
    /\ input_mode' = Normal
    /\ UNCHANGED <<catsTbl, postsTbl, posts, focus, active_node,
                   selected_index, message, is_loading, show_read, exit,
                   sidebarVars, runtimeVars, editorVars, lock>>

\* 'e' in the sidebar with the cursor on a category: the feeds of the
\* category are loaded into the feed editor (App::load_category_feeds).
EditCategoryFeeds ==
    /\ NormalKey("Sidebar")
    /\ db_lock
    /\ section = "Categories"
    /\ category_index < Len(categories)
    /\ LET cat == categories[category_index + 1]
       IN  /\ category_feeds' = FeedsInRowOrder(get_feeds_by_category(feedsTbl, cat))
           /\ input_mode' = EditingCategoryFeeds(cat)
    /\ category_feed_index' = 0
    /\ UNCHANGED <<storeVars, posts, focus, active_node, selected_index,
                   message, is_loading, show_read, exit, sidebarVars,
                   runtimeVars, lock>>

\* 'j' / 'k' in the feed editor: App::next_category_feed, previous_category_feed
EditorMove ==
    /\ KeyIn("EditingCategoryFeeds")
    /\ \/ category_feed_index' =
              next_post(category_feed_index, Len(category_feeds))
       \/ category_feed_index' = previous_post(category_feed_index)
    /\ UNCHANGED <<storeVars, appVars, sidebarVars, category_feeds,
                   runtimeVars, lock>>

\* format!("Deleted feed: {}", title); a feed without title shows its URL.
FeedDeleted(feed) == "Deleted feed: " \o feed.url

\* 'd' in the feed editor: App::delete_category_feed deletes the selected
\* feed and its posts at once; the editor closes when its list is empty.
\* The active list is not reloaded.
EditorDeleteFeed ==
    /\ KeyIn("EditingCategoryFeeds")
    /\ IF category_feed_index < Len(category_feeds)
       THEN LET feed == category_feeds[category_feed_index + 1]
            IN  /\ postsTbl' = delete_feed_posts(postsTbl, feed.id)
                /\ feedsTbl' = delete_feed_row(feedsTbl, feed.id)
                /\ category_feeds' = RemoveAt(category_feeds, category_feed_index)
                /\ category_feed_index' =
                       Clamp(category_feed_index, Len(category_feeds'))
                /\ message' = FeedDeleted(feed)
                /\ UNCHANGED catsTbl
                /\ refresh_sidebar
       ELSE UNCHANGED <<storeVars, categories, counts, message, editorVars>>
    /\ input_mode' = IF category_feeds' = <<>> THEN Normal ELSE input_mode
    /\ UNCHANGED <<posts, focus, active_node, selected_index, is_loading,
                   show_read, exit, cursorVars, last_fetched, runtimeVars,
                   lock>>

\* Esc in the feed editor: back to normal mode, the active list is reloaded.
EditorClose ==
    /\ KeyIn("EditingCategoryFeeds")
    /\ input_mode' = Normal
    /\ UNCHANGED <<storeVars, active_node, show_read>>
    /\ reload_posts_for_active_node
    /\ UNCHANGED <<focus, message, is_loading, exit, sidebarVars,
                   runtimeVars, editorVars, lock>>

\* The feeds an OPML file under ~/Downloads may hold (import_opml_content
\* adds one feed for every xmlUrl it finds).
OpmlFiles == {{Feed(1, "fa", "General")}, FeedRows}

\* format!("Imported {} feeds!", imported)
Imported(n) == "Imported " \o ToString(n) \o " feeds!"

\* 'i' on the welcome screen, a file is found and holds feeds: they are
\* added, the sidebar is refreshed and a refresh of the active node is
\* launched without a look at is_loading.
WelcomeImport ==
    /\ KeyIn("Welcome")
    /\ \E file \in OpmlFiles :
          /\ feedsTbl' = feedsTbl \cup file
          /\ message' = Imported(Cardinality(file))
    /\ UNCHANGED <<catsTbl, postsTbl>>
    /\ refresh_sidebar
    /\ is_loading' = TRUE
    /\ input_mode' = Normal
    /\ tasks' = [t \in TaskIds |->
                    IF tasks[t] # Spawn(tasks, active_node)[t]
                    THEN [SpawnedTask(active_node) EXCEPT
                             !.launch_feeds = FeedsForNode(feedsTbl', active_node)]
                    ELSE tasks[t]]
    /\ launched' = launched + 1
    /\ UNCHANGED <<posts, focus, active_node, selected_index, show_read, exit,
                   cursorVars, last_fetched, queue, processed, editorVars,
                   lock>>

\* 'i' on the welcome screen and no file holds a feed: only a message.
WelcomeImportNothing ==
    /\ KeyIn("Welcome")
    /\ message' = "No OPML file found in ~/Downloads"
    /\ UNCHANGED <<storeVars, posts, focus, active_node, selected_index,
                   is_loading, input_mode, show_read, exit, sidebarVars,
                   runtimeVars, editorVars, lock>>

\* 'q' on the welcome screen
WelcomeQuit ==
    /\ KeyIn("Welcome")
    /\ exit' = TRUE
    /\ UNCHANGED <<storeVars, posts, focus, active_node, selected_index,
                   message, is_loading, input_mode, show_read, sidebarVars,
                   runtimeVars, editorVars, lock>>

\* Fault: 'r' launches a refresh whether or not one is loading.
RequestRefreshUnguarded ==
    /\ NormalKey("Posts")
    /\ CanSpawn(tasks)
    /\ launched < MaxLaunches
    /\ is_loading' = TRUE
    /\ tasks' = Spawn(tasks, active_node)
    /\ launched' = launched + 1
    /\ UNCHANGED <<storeVars, posts, focus, active_node, selected_index,
                   message, input_mode, show_read, exit, sidebarVars, queue,
                   processed, editorVars, lock>>

\* 'r' in the post list: a refresh of the active node is launched unless
\* one is shown as loading.
RequestRefresh ==
    /\ NormalKey("Posts")
    /\ ~is_loading
    /\ CanSpawn(tasks)
    /\ launched < MaxLaunches
    /\ is_loading' = TRUE
    /\ tasks' = Spawn(tasks, active_node)
    /\ launched' = launched + 1
    /\ UNCHANGED <<storeVars, posts, focus, active_node, selected_index,
                   message, input_mode, show_read, exit, sidebarVars, queue,
                   processed,
                   editorVars, lock>>

(***************************************************************************)
(* The event loop of main(): a completion notification.                    *)
(***************************************************************************)
\* Fault: the list is reloaded whichever node the notification names.
completion_reloads_always(active, fetched_node) == TRUE

\* if app.active_node == fetched_node { reload }
completion_reloads(active, fetched_node) == active = fetched_node

RecvCompletion ==
    /\ ~exit
    /\ queue # <<>>
    /\ LET fetched_node == Head(queue)
       IN  /\ last_fetched' = mark_fetched(last_fetched, fetched_node)
           /\ UNCHANGED <<storeVars, active_node, show_read>>
           /\ IF completion_reloads(active_node, fetched_node)
              THEN reload_posts_for_active_node
              ELSE UNCHANGED <<posts, selected_index>>
    /\ refresh_sidebar
    /\ is_loading' = FALSE
    /\ message' = "Feeds updated"
    /\ queue' = Tail(queue)
    /\ processed' = processed + 1
    /\ UNCHANGED <<focus, input_mode, exit, cursorVars, tasks, launched,
                   editorVars, lock>>

(***************************************************************************)
(* The steps of a refresh task (fetch_feeds_for_node).                     *)
(***************************************************************************)
\* The task locks the store and reads the feeds of its node.
TaskSnapshot(t) ==
    /\ ~exit
    /\ tasks[t].pc = "spawned"
    /\ tasks' = [tasks EXCEPT ![t].pc = "running",
                               ![t].feeds_list = FeedsForNode(feedsTbl, tasks[t].node)]
    /\ UNCHANGED <<storeVars, appVars, sidebarVars, queue, launched, processed,
                   editorVars, lock>>

\* rss::fetch_feed returned Ok: every entry is ingested under the store lock.
\* The same step in a build whose SQLite enforces REFERENCES feeds(id): the
\* inserts for a feed that is no longer stored fail, and `let _ =` drops the
\* errors.
TaskFetchOkEnforced(t) ==
    /\ ~exit
    /\ tasks[t].pc = "running"
    /\ tasks[t].feeds_list # <<>>
    /\ LET feed_meta == Head(tasks[t].feeds_list)
       IN  /\ \A f \in feedsTbl : f.id # feed_meta.id
           /\ Responses(feed_meta.url) # {}
    /\ tasks' = [tasks EXCEPT ![t].feeds_list = Tail(@)]
    /\ UNCHANGED <<storeVars, appVars, sidebarVars, queue, launched,
                   processed, editorVars, lock>>

TaskFetchOk(t) ==
    /\ ~exit
    /\ tasks[t].pc = "running"
    /\ tasks[t].feeds_list # <<>>
    /\ LET feed_meta == Head(tasks[t].feeds_list)
       IN  \E entries \in Responses(feed_meta.url) :
               postsTbl' = Ingest(postsTbl, feed_meta.id, entries)
    /\ tasks' = [tasks EXCEPT ![t].feeds_list = Tail(@)]
    /\ UNCHANGED <<feedsTbl, catsTbl, appVars, sidebarVars, queue, launched,
                   processed,
                   editorVars, lock>>

\* Fault: a failed fetch ends the task at once (return), nothing is sent.
TaskFetchErrReturns(t) ==
    /\ ~exit
    /\ tasks[t].pc = "running"
    /\ tasks[t].feeds_list # <<>>
    /\ tasks' = [tasks EXCEPT ![t] = IdleTask]
    /\ UNCHANGED <<storeVars, appVars, sidebarVars, queue, launched, processed,
                   editorVars, lock>>

\* Fault: a failed fetch leaves the loop (break), the later feeds are skipped.
TaskFetchErrBreaks(t) ==
    /\ ~exit
    /\ tasks[t].pc = "running"
    /\ tasks[t].feeds_list # <<>>
    /\ tasks' = [tasks EXCEPT ![t].feeds_list = <<>>,
                               ![t].failed = @ \cup {Head(tasks[t].feeds_list).id}]
    /\ UNCHANGED <<storeVars, appVars, sidebarVars, queue, launched, processed,
                   editorVars, lock>>

\* rss::fetch_feed returned Err (network, timeout, parse): the feed is skipped.
TaskFetchErr(t) ==
    /\ ~exit
    /\ tasks[t].pc = "running"
    /\ tasks[t].feeds_list # <<>>
    /\ tasks' = [tasks EXCEPT ![t].feeds_list = Tail(@),
                               ![t].failed = @ \cup {Head(tasks[t].feeds_list).id}]
    /\ UNCHANGED <<storeVars, appVars, sidebarVars, queue, launched, processed,
                   editorVars, lock>>

\* Fault: the task records the fetch in the staleness map itself.
TaskSendMarksFetched(t) ==
    /\ ~exit
    /\ tasks[t].pc = "running"
    /\ tasks[t].feeds_list = <<>>
    /\ Len(queue) < QueueCapacity
    /\ queue' = Append(queue, tasks[t].node)
    /\ tasks' = [tasks EXCEPT ![t] = IdleTask]
    /\ last_fetched' = mark_fetched(last_fetched, tasks[t].node)
    /\ UNCHANGED <<storeVars, appVars, categories, cursorVars, counts,
                   launched, processed,
                   editorVars, lock>>

\* tx.send(node).await: waits while the channel is full, then the task ends.
TaskSend(t) ==
    /\ ~exit
    /\ tasks[t].pc = "running"
    /\ tasks[t].feeds_list = <<>>
    /\ Len(queue) < QueueCapacity
    /\ queue' = Append(queue, tasks[t].node)
    /\ tasks' = [tasks EXCEPT ![t] = IdleTask]
    /\ UNCHANGED <<storeVars, appVars, sidebarVars, launched, processed,
                   editorVars, lock>>

(***************************************************************************)
(* The same task, step by step: taking and dropping the lock around the    *)
(* store and awaiting the network are steps of their own.                  *)
(***************************************************************************)
\* let db = db.lock().unwrap(): before the feeds are read and before the
\* entries of a fetched feed are ingested; the task waits until the lock is free.
TaskLocks(t) ==
    /\ ~exit
    /\ tasks[t].pc \in {"spawned", "fetched"}
    /\ lock = Unlocked
    /\ lock' = lock \cup {t}
    /\ tasks' = [tasks EXCEPT ![t].pc = IF @ = "spawned" THEN "snapshot" ELSE "ingest"]
    /\ UNCHANGED <<storeVars, appVars, sidebarVars, queue, launched, processed,
                   editorVars>>

\* The block that reads feeds_list; the guard is dropped at its end.
TaskReadsFeeds(t) ==
    /\ ~exit
    /\ tasks[t].pc = "snapshot"
    /\ tasks' = [tasks EXCEPT ![t].pc = "running",
                               ![t].feeds_list = FeedsForNode(feedsTbl, tasks[t].node)]
    /\ lock' = Unlocked
    /\ UNCHANGED <<storeVars, appVars, sidebarVars, queue, launched, processed,
                   editorVars>>

\* Fault: the lock is taken before the fetch and held while it is awaited.
TaskFetchBeginsLocked(t) ==
    /\ ~exit
    /\ tasks[t].pc = "running"
    /\ tasks[t].feeds_list # <<>>
    /\ lock = Unlocked
    /\ lock' = lock \cup {t}
    /\ tasks' = [tasks EXCEPT ![t].pc = "fetching"]
    /\ UNCHANGED <<storeVars, appVars, sidebarVars, queue, launched, processed,
                   editorVars>>

\* rss::fetch_feed(&client, &feed_meta.url).await: the request is out.
TaskFetchBegins(t) ==
    /\ ~exit
    /\ tasks[t].pc = "running"
    /\ tasks[t].feeds_list # <<>>
    /\ tasks' = [tasks EXCEPT ![t].pc = "fetching"]
    /\ UNCHANGED <<storeVars, appVars, sidebarVars, queue, launched, processed,
                   editorVars, lock>>

\* The fetch returned Ok(feed_data).
TaskFetchReturnsOk(t) ==
    /\ ~exit
    /\ tasks[t].pc = "fetching"
    /\ tasks' = [tasks EXCEPT ![t].pc = "fetched"]
    /\ UNCHANGED <<storeVars, appVars, sidebarVars, queue, launched, processed,
                   editorVars, lock>>

\* The fetch returned Err: the feed is skipped, the lock is not touched.
TaskFetchReturnsErr(t) ==
    /\ ~exit
    /\ tasks[t].pc = "fetching"
    /\ tasks' = [tasks EXCEPT ![t].pc = "running",
                               ![t].feeds_list = Tail(@),
                               ![t].failed = @ \cup {Head(tasks[t].feeds_list).id}]
    /\ UNCHANGED <<storeVars, appVars, sidebarVars, queue, launched, processed,
                   editorVars, lock>>

\* The Ok arm: every entry is inserted, the guard is dropped at its end.
TaskIngests(t) ==
    /\ ~exit
    /\ tasks[t].pc = "ingest"
    /\ LET feed_meta == Head(tasks[t].feeds_list)
       IN  \E entries \in Responses(feed_meta.url) :
               postsTbl' = Ingest(postsTbl, feed_meta.id, entries)
    /\ tasks' = [tasks EXCEPT ![t].pc = "running", ![t].feeds_list = Tail(@)]
    /\ lock' = Unlocked
    /\ UNCHANGED <<feedsTbl, catsTbl, appVars, sidebarVars, queue, launched,
                   processed, editorVars>>

TaskStep == \E t \in TaskIds :
    TaskSnapshot(t) \/ TaskFetchOk(t) \/ TaskFetchErr(t) \/ TaskSend(t)

(***************************************************************************)
(* Specifications.  Each one runs the program in one environment: it fixes *)
(* the database the program starts on and the keys the user presses.       *)
(***************************************************************************)
EmptyStore == [feeds |-> FeedRows, cats |-> {"General", "Tech"}, posts |-> {}]

\* A database left by an earlier session: three unread posts, all of them
\* starred and archived.
StarredStore ==
    [feeds |-> FeedRows, cats |-> {"General", "Tech"},
     posts |-> {Post(1, 1, "u1", 2, FALSE, TRUE, TRUE, FALSE),
                Post(2, 1, "u2", NoDate, FALSE, TRUE, TRUE, FALSE),
                Post(3, 2, "u3", 2, FALSE, TRUE, TRUE, FALSE)}]

\* The same three posts with the read-later flag set as well.
FlaggedStore ==
    [feeds |-> FeedRows, cats |-> {"General", "Tech"},
     posts |-> {Post(1, 1, "u1", 2, FALSE, TRUE, TRUE, TRUE),
                Post(2, 1, "u2", NoDate, FALSE, TRUE, TRUE, TRUE),
                Post(3, 2, "u3", 2, FALSE, TRUE, TRUE, TRUE)}]

\* A database with g unread posts under General and t under Tech, and one
\* read post in each category.  Dates repeat, some posts have none, and the
\* dates of the two categories interleave.
ArchiveUrl(i) == <<"archive", i>>

ArchiveStore(g, t) ==
    [feeds |-> FeedRows, cats |-> {"General", "Tech"},
     posts |-> {Post(i, 1, ArchiveUrl(i), (i * 3) % 5, FALSE, FALSE, FALSE, FALSE)
                   : i \in 1..g}
               \cup {Post(g + j, 2, ArchiveUrl(g + j), 2 * j, FALSE, FALSE, FALSE, FALSE)
                   : j \in 1..t}
               \cup {Post(g + t + 1, 1, ArchiveUrl(g + t + 1), 9, TRUE, FALSE, FALSE, FALSE),
                     Post(g + t + 2, 2, ArchiveUrl(g + t + 2), 9, TRUE, FALSE, FALSE, FALSE)}]

DigestStores ==
    {ArchiveStore(g, t) : g \in {3, 11, MaxPerCategory}, t \in {0, 2}}

\* Refreshing: the program starts on the configured feeds with no post yet;
\* the user navigates, switches the read filter and asks for refreshes while
\* the refresh tasks run.
Init == InitOn(EmptyStore)

Next ==
    \/ DismissMessage
    \/ Quit
    \/ MoveFocus
    \/ SidebarMove
    \/ SelectSidebarItem
    \/ MoveSelection
    \/ ToggleShowRead
    \/ RequestRefresh
    \/ RecvCompletion
    \/ TaskStep

Spec == Init /\ [][Next]_vars

\* Liveness of refreshes: the refreshing program under the scheduling the
\* runtime gives.  A spawned task is polled until it ends, and every fetch
\* returns or times out (the client is built with a 10 s timeout); select!
\* takes a notification that waits in the channel.  Nothing forces a key.
\* The user selects a node, asks for refreshes and may quit at any time.
TaskFairness ==
    \A t \in TaskIds :
        /\ WF_vars(TaskSnapshot(t))
        /\ WF_vars(TaskFetchOk(t) \/ TaskFetchErr(t))
        /\ WF_vars(TaskSend(t))

NextLive ==
    \/ DismissMessage
    \/ Quit
    \/ SidebarMove
    \/ SelectSidebarItem
    \/ RequestRefresh
    \/ RecvCompletion
    \/ TaskStep

SpecLive ==
    Init /\ [][NextLive]_vars /\ TaskFairness /\ WF_vars(RecvCompletion)

\* Reading and flagging: the program starts on the database of an earlier
\* session; the user navigates, opens articles, toggles flags and deletes
\* posts.  The refresh task spawned at startup is not scheduled.
InitList == InitOn(StarredStore)

NextList ==
    \/ DismissMessage
    \/ MoveFocus
    \/ SidebarMove
    \/ SelectSidebarItem
    \/ MoveSelection
    \/ OpenArticle
    \/ CloseArticle
    \/ ToggleBookmark
    \/ ToggleArchived
    \/ ToggleRead
    \/ ToggleShowRead
    \/ RequestDeletePost
    \/ ConfirmDeletePost
    \/ DeclineConfirm

SpecList == InitList /\ [][NextList]_vars

\* The flag toggles of App as operations: the program has loaded the
\* database of an earlier session and shows one of its nodes; the four
\* toggles are applied to the selected post, toggle_read_later included.
AllNodes ==
    {Fresh, Starred, ReadLater, Archived}
        \cup CategoryNodes(load_categories(FlaggedStore.cats, FlaggedStore.feeds))

CursorOf(node) ==
    CHOOSE c \in {Cursor(sec, i, j) : sec \in {"SmartViews", "Categories"},
                                       i \in 0..3, j \in 0..1} :
        /\ selected_node(c.section, c.smart_view_index, c.category_index,
                         load_categories(FlaggedStore.cats, FlaggedStore.feeds))
               = node
        /\ c.section = "SmartViews" => c.category_index = 0
        /\ c.section = "Categories" => c.smart_view_index = 3

\* The state after node was selected in the sidebar with show-read set to
\* show, on a database left by an earlier session.
InitAt(store, node, show) ==
    /\ feedsTbl = store.feeds
    /\ catsTbl = store.cats
    /\ postsTbl = store.posts
    /\ categories = load_categories(catsTbl, feedsTbl)
    /\ counts = update_counts(<<>>, categories, postsTbl, feedsTbl)
    /\ last_fetched = {}
    /\ SetCursorTo(CursorOf(node))
    /\ active_node = node
    /\ show_read = show
    /\ posts = Materialize(node, show, postsTbl, feedsTbl, catsTbl)
    /\ selected_index = 0
    /\ focus = "Posts"
    /\ message = NoMessage
    /\ is_loading = TRUE
    /\ input_mode = Normal
    /\ exit = FALSE
    /\ category_feeds = <<>>
    /\ category_feed_index = 0
    /\ lock = Unlocked
    /\ queue = <<>>
    /\ tasks = Spawn([i \in TaskIds |-> IdleTask], Fresh)
    /\ launched = 1
    /\ processed = 0

InitToggle ==
    \E node \in AllNodes, show \in BOOLEAN : InitAt(FlaggedStore, node, show)

NextToggle ==
    \/ DismissMessage
    \/ MoveSelection
    \/ ToggleBookmark
    \/ ToggleArchived
    \/ ToggleReadLater
    \/ ToggleRead

SpecToggle == InitToggle /\ [][NextToggle]_vars

\* The digest: the program starts offline on a database that holds many
\* unread posts; every fetch fails, so the store stays as it was found.
InitDigest == \E store \in DigestStores : InitOn(store)

NextDigest ==
    \/ DismissMessage
    \/ MoveFocus
    \/ SidebarMove
    \/ SelectSidebarItem
    \/ ToggleShowRead
    \/ RequestRefresh
    \/ RecvCompletion
    \/ \E t \in TaskIds : TaskSnapshot(t) \/ TaskFetchErr(t) \/ TaskSend(t)

SpecDigest == InitDigest /\ [][NextDigest]_vars

\* Two unread posts of one feed, both starred and archived.
PairStore ==
    [feeds |-> FeedRows, cats |-> {"General", "Tech"},
     posts |-> {Post(1, 1, "u1", 2, FALSE, TRUE, TRUE, FALSE),
                Post(2, 1, "u2", NoDate, FALSE, TRUE, TRUE, FALSE)}]

\* The post list under store writes that may fail: every node and both
\* show-read settings over the pair of posts; the keys of the post list that
\* write to the store, each write succeeding or failing.
NextFaulty ==
    \/ DismissMessage
    \/ MoveSelection
    \/ OpenArticle
    \/ OpenArticleWriteFails
    \/ ToggleBookmark
    \/ ToggleBookmarkWriteFails
    \/ ToggleArchived
    \/ ToggleArchivedWriteFails
    \/ ToggleRead
    \/ ToggleReadWriteFails
    \/ RequestDeletePost
    \/ ConfirmDeletePost
    \/ ConfirmDeletePostFails
    \/ DeclineConfirm

InitFaulty ==
    \E node \in AllNodes, show \in BOOLEAN : InitAt(PairStore, node, show)

SpecFaulty == InitFaulty /\ [][NextFaulty]_vars

\* A database with an empty third category and one older post per feed.  The
\* refresh spawned at startup brings newer posts for both feeds.
ShelfStore ==
    [feeds |-> FeedRows, cats |-> {"General", "Tech", "Work"},
     posts |-> {Post(1, 1, "u0", 1, FALSE, FALSE, FALSE, FALSE),
                Post(2, 2, "u9", 1, FALSE, FALSE, FALSE, FALSE)}]

\* Deleting posts while the startup refresh runs: the user navigates, asks
\* for the deletion of posts and answers the dialog with any key; the store
\* delete succeeds or fails.
InitConfirm == InitOn(ShelfStore)

NextConfirm ==
    \/ DismissMessage
    \/ MoveFocus
    \/ SidebarMove
    \/ SelectSidebarItem
    \/ MoveSelection
    \/ RequestDeletePost
    \/ ConfirmDeletePost
    \/ ConfirmDeletePostFails
    \/ DeclineConfirm
    \/ ConfirmOtherKey
    \/ RecvCompletion
    \/ TaskStep

SpecConfirm == InitConfirm /\ [][NextConfirm]_vars

\* Categories, feeds and the dialog: the user navigates, asks for the
\* deletion of posts and of categories, answers the dialog, and edits the
\* feeds of a category.  The startup refresh finds no feed reachable.
NextCategory ==
    \/ DismissMessage
    \/ MoveFocus
    \/ SidebarMove
    \/ SelectSidebarItem
    \/ MoveSelection
    \/ RequestDeletePost
    \/ ConfirmDeletePost
    \/ ConfirmDeletePostFails
    \/ RequestDeleteCategory
    \/ ConfirmDeleteCategory
    \/ ConfirmDeleteCategoryFails
    \/ DeclineConfirm
    \/ ConfirmOtherKey
    \/ EditCategoryFeeds
    \/ EditorMove
    \/ EditorDeleteFeed
    \/ EditorClose
    \/ RecvCompletion
    \/ \E t \in TaskIds : TaskSnapshot(t) \/ TaskFetchErr(t) \/ TaskSend(t)

SpecCategory == InitConfirm /\ [][NextCategory]_vars

\* The sidebar as a component.  SidebarState::new() lists no category;
\* App::new calls load_categories on it before the first key is read.  The
\* cursor operations are applied to the sidebar as constructed and to the
\* sidebar as loaded from databases with one, two and three categories.
SidebarStores ==
    {[feeds |-> fs, cats |-> cs, posts |-> {}] :
        fs \in {{Feed(1, "fa", "General")}, FeedRows},
        cs \in {{"General"}, {"General", "Work"}}}

InitSidebar ==
    \/ \E store \in SidebarStores : InitOn(store)
    \/ /\ feedsTbl = EmptyStore.feeds
       /\ catsTbl = EmptyStore.cats
       /\ postsTbl = EmptyStore.posts
       /\ categories = <<>>
       /\ counts = <<>>
       /\ last_fetched = {}
       /\ section = "SmartViews"
       /\ smart_view_index = 0
       /\ category_index = 0
       /\ active_node = Fresh
       /\ posts = <<>>
       /\ focus = "Sidebar"
       /\ selected_index = 0
       /\ message = NoMessage
       /\ is_loading = FALSE
       /\ input_mode = Normal
       /\ show_read = FALSE
       /\ exit = FALSE
       /\ category_feeds = <<>>
       /\ category_feed_index = 0
       /\ lock = Unlocked
       /\ queue = <<>>
       /\ tasks = [i \in TaskIds |-> IdleTask]
       /\ launched = 0
       /\ processed = 0

NextSidebar ==
    \/ MoveFocus
    \/ SidebarMove
    \/ SelectSidebarItem

SpecSidebar == InitSidebar /\ [][NextSidebar]_vars

\* Reading while the startup refresh runs: the user opens articles of the
\* digest and closes or leaves them, and the refresh completes at any moment.
NextReader ==
    \/ DismissMessage
    \/ MoveFocus
    \/ MoveSelection
    \/ OpenArticle
    \/ CloseArticle
    \/ RecvCompletion
    \/ TaskStep

SpecReader == InitConfirm /\ [][NextReader]_vars

\* A database that holds more posts than a list shows: MaxStored posts, all
\* starred, the first g of them under General and the rest under Tech; every
\* third is read, three in four are archived, every fifth is marked for
\* reading later.  Dates repeat and some posts have none.
LibraryStore(g) ==
    [feeds |-> FeedRows, cats |-> {"General", "Tech"},
     posts |-> {Post(i, IF i <= g THEN 1 ELSE 2, ArchiveUrl(i), (i * 7) % 13,
                     i % 3 = 0, TRUE, i % 4 # 0, i % 5 = 0) : i \in 1..MaxStored}]

LibraryStores == {LibraryStore(g) : g \in {0, 3, MaxStored - 1}}

\* Browsing the library: the user walks the sidebar, activates nodes and
\* switches the read filter; the store stays as the program found it.
InitLibrary == \E store \in LibraryStores : InitOn(store)

NextLibrary ==
    \/ MoveFocus
    \/ SidebarMove
    \/ SelectSidebarItem
    \/ ToggleShowRead

SpecLibrary == InitLibrary /\ [][NextLibrary]_vars

\* Editing feeds while refreshes are launched: the user asks for refreshes,
\* deletes feeds in the feed editor and deletes categories, and the tasks are
\* scheduled at any moment; every fetch fails.
NextSnapshot ==
    \/ DismissMessage
    \/ MoveFocus
    \/ SidebarMove
    \/ SelectSidebarItem
    \/ RequestRefresh
    \/ RequestDeleteCategory
    \/ ConfirmDeleteCategory
    \/ DeclineConfirm
    \/ EditCategoryFeeds
    \/ EditorDeleteFeed
    \/ EditorClose
    \/ RecvCompletion
    \/ \E t \in TaskIds : TaskSnapshot(t) \/ TaskFetchErr(t) \/ TaskSend(t)

SpecSnapshot == InitConfirm /\ [][NextSnapshot]_vars

\* The store lock: the startup refresh on the empty database with the steps
\* of the task taken apart, so that the interactive loop runs while the task
\* holds the lock or awaits a fetch; the user navigates and opens articles.
NextLock ==
    \/ DismissMessage
    \/ MoveFocus
    \/ SidebarMove
    \/ SelectSidebarItem
    \/ OpenArticle
    \/ RecvCompletion
    \/ \E t \in TaskIds :
          \/ TaskLocks(t)
          \/ TaskReadsFeeds(t)
          \/ TaskFetchBegins(t)
          \/ TaskFetchReturnsOk(t)
          \/ TaskFetchReturnsErr(t)
          \/ TaskIngests(t)
          \/ TaskSend(t)

SpecLock == Init /\ [][NextLock]_vars

\* The loading flag: the program starts on the configured feeds, or on a
\* database without feeds (the welcome screen, from which feeds are
\* imported); the user navigates and asks for refreshes while tasks run.
BlankStore == [feeds |-> {}, cats |-> {"General"}, posts |-> {}]

InitLoading == InitOn(EmptyStore) \/ InitOn(BlankStore)

NextLoading ==
    \/ DismissMessage
    \/ Quit
    \/ WelcomeImport
    \/ WelcomeImportNothing
    \/ WelcomeQuit
    \/ MoveFocus
    \/ SidebarMove
    \/ SelectSidebarItem
    \/ RequestRefresh
    \/ RecvCompletion
    \/ TaskStep

SpecLoading == InitLoading /\ [][NextLoading]_vars

\* Deleting feeds in the category feed editor while the startup refresh
\* runs, on a database that holds the configured feeds and no post. The
\* source opens the connection without PRAGMA foreign_keys; whether the
\* linked SQLite enforces the reference of posts.feed_id is decided by the
\* build, so a fetched feed that was deleted is ingested or rejected.
InitOrphan == InitOn(EmptyStore)

NextOrphan ==
    \/ DismissMessage
    \/ MoveFocus
    \/ SidebarMove
    \/ EditCategoryFeeds
    \/ EditorDeleteFeed
    \/ EditorClose
    \/ RecvCompletion
    \/ \E t \in TaskIds : \/ TaskSnapshot(t)
                          \/ TaskFetchOk(t)
                          \/ TaskFetchOkEnforced(t)
                          \/ TaskFetchErr(t)
                          \/ TaskSend(t)

SpecOrphan == InitOrphan /\ [][NextOrphan]_vars

\* Reading with the article view open: the user opens posts, toggles the
\* star from the list or the article view and changes the view, while the
\* startup refresh runs and completes.
NextArticle ==
    \/ DismissMessage
    \/ MoveFocus
    \/ SidebarMove
    \/ SelectSidebarItem
    \/ OpenArticle
    \/ CloseArticle
    \/ ToggleBookmark
    \/ RecvCompletion
    \/ TaskStep

SpecArticle == InitList /\ [][NextArticle]_vars

\* Flags in the list and in the store: the user moves in the sidebar and in
\* the list, toggles flags (every store write succeeds) and deletes feeds in
\* the category feed editor, while the startup refresh runs and completes.
NextFlags ==
    \/ DismissMessage
    \/ MoveFocus
    \/ SidebarMove
    \/ ToggleBookmark
    \/ ToggleRead
    \/ EditCategoryFeeds
    \/ EditorDeleteFeed
    \/ EditorClose
    \/ RecvCompletion
    \/ TaskStep
    \/ \E t \in TaskIds : TaskFetchOkEnforced(t)

SpecFlags == InitList /\ [][NextFlags]_vars

(***************************************************************************)
(* Properties.                                                             *)
(***************************************************************************)
SmartViewNodes == {Fresh, Starred, ReadLater, Archived}

\* The nodes the sidebar lists.
ListedNodes == SmartViewNodes \cup CategoryNodes(categories)

\* The number of posts the store holds for a node once a step is done.
Tally(n) ==
    Cardinality({p \in postsTbl' :
        CASE n = Fresh -> ~p.is_read
          [] n = Starred -> p.is_bookmarked
          [] n = ReadLater -> p.is_read_later
          [] n = Archived -> p.is_archived
          [] OTHER -> \E f \in feedsTbl' : f.id = p.feed_id /\ f.category = n.name})

\* The loop takes the notification at the head of the channel.
CompletionHandled ==
    queue # <<>> /\ queue' = Tail(queue) /\ processed' = processed + 1

\* C1: when the notification of a refresh of node X is handled while another
\* node is active, the active list and the selection index stay exactly as
\* they were, and every listed count is recomputed from the store.
C1_RefreshRaceSafety ==
    [][(CompletionHandled /\ Head(queue) # active_node)
        => /\ posts' = posts
           /\ selected_index' = selected_index
           /\ \A n \in ListedNodes' : counts'[n] = Tally(n)]_vars

\* The startup refresh of Fresh ingested a Tech post while the empty Tech
\* category was active: the list is still empty, the count shows the post.
C1_Witness ==
    /\ processed = 1
    /\ message = "Feeds updated"
    /\ active_node = Category("Tech")
    /\ Fresh \in last_fetched
    /\ posts = <<>>
    /\ counts[Category("Tech")] = 1

\* C2: handling the notification of node N leaves N in the staleness map,
\* every listed count equal to the store's count, and, when N is the active
\* node, the active list equal to the node's materialization from the store.
C2_CompletionHandling ==
    [][CompletionHandled
        => /\ Head(queue) \in last_fetched'
           /\ \A n \in ListedNodes' : counts'[n] = Tally(n)
           /\ Head(queue) = active_node'
                => posts' = Materialize(active_node', show_read', postsTbl',
                                        feedsTbl', catsTbl')]_vars

\* The startup refresh of Fresh is handled while Fresh is active: the three
\* ingested posts are listed and counted.
C2_Witness ==
    /\ processed = 1
    /\ message = "Feeds updated"
    /\ active_node = Fresh
    /\ Fresh \in last_fetched
    /\ Len(posts) = 3
    /\ counts[Fresh] = 3

\* A step of a refresh task: the tasks change and none is spawned.
TaskStepTaken == tasks' # tasks /\ launched' = launched

\* C3: a step of a refresh task changes neither the active node, the active
\* list, the selection index, the show-read toggle, the sidebar cursor, the
\* counts nor the staleness map; it only adds posts to the store or appends
\* one notification to the channel.
C3_TaskFrame ==
    [][TaskStepTaken
        => /\ UNCHANGED <<active_node, posts, selected_index, show_read,
                          cursorVars, counts, last_fetched>>
           /\ UNCHANGED <<feedsTbl, catsTbl>>
           /\ postsTbl \subseteq postsTbl'
           /\ \/ queue' = queue
              \/ /\ postsTbl' = postsTbl
                 /\ \E t \in TaskIds : queue' = Append(queue, tasks[t].node)]_vars

\* A task has ingested posts and sent its notification; the view state is
\* that of startup.
C3_Witness ==
    /\ queue = <<Fresh>>
    /\ Cardinality(postsTbl) = 3
    /\ posts = <<>>
    /\ counts[Fresh] = 0
    /\ last_fetched = {}
    /\ is_loading

\* Each launched task is in flight, or its one notification waits in the
\* channel, or its one notification has been handled.
OneNotificationEach ==
    launched = Cardinality(InFlight(tasks)) + Len(queue) + processed

\* A task ends by sending the notification of its node.
EndsBySending ==
    \A t \in TaskIds :
        (tasks[t].pc # "idle" /\ tasks'[t].pc = "idle")
            => queue' = Append(queue, tasks[t].node)

\* C5: every launched refresh task sends exactly one notification, for its
\* node, whether its fetches succeed or fail, and the loop handles it, unless
\* the program is quit before.
C5_RefreshCompletes ==
    /\ []OneNotificationEach
    /\ [][EndsBySending]_vars
    /\ \A k \in 1..MaxLaunches : (launched >= k) ~> (exit \/ processed >= k)

\* Two refreshes were launched and handled, and no fetch brought a post.
C5_Witness ==
    /\ launched = 2
    /\ processed = 2
    /\ postsTbl = {}
    /\ ~exit

\* A fetch of task t failed in this step.
FetchFailed(t) ==
    tasks[t].failed # tasks'[t].failed /\ tasks[t].failed \subseteq tasks'[t].failed

\* C6: a failed fetch ingests nothing, the task goes on with every later feed
\* of its snapshot, and a feed whose fetch failed is not visited again.
C6_FailedFetchSkipped ==
    [][\A t \in TaskIds :
          /\ FetchFailed(t)
                => /\ postsTbl' = postsTbl
                   /\ tasks'[t].pc = "running"
                   /\ tasks'[t].feeds_list = Tail(tasks[t].feeds_list)
          /\ \A i \in DOMAIN tasks'[t].feeds_list :
                tasks'[t].feeds_list[i].id \notin tasks'[t].failed]_vars

\* The fetch of the first feed failed, and the posts of the second feed were
\* ingested afterwards.
C6_Witness ==
    \E t \in TaskIds :
        /\ tasks[t].pc = "running"
        /\ tasks[t].failed = {1}
        /\ tasks[t].feeds_list = <<>>
        /\ {p.feed_id : p \in postsTbl} = {2}
        /\ Cardinality(postsTbl) = 2

\* What the feeds may serve during one refresh: a response for each feed URL.
ResponseMaps ==
    {r \in [{f.url : f \in FeedRows} -> UNION {Responses(f.url) : f \in FeedRows}] :
        \A u \in DOMAIN r : r[u] \in Responses(u)}

\* The store after a refresh that visits feeds_list and is served r.
RECURSIVE RefreshWith(_, _, _)
RefreshWith(P, feeds_list, r) ==
    IF feeds_list = <<>> THEN P
    ELSE RefreshWith(Ingest(P, Head(feeds_list).id, r[Head(feeds_list).url]),
                     Tail(feeds_list), r)

\* C9: the store holds one post per URL; inserting a stored URL leaves the
\* number of posts as it is; a refresh that is run a second time and served
\* the same responses leaves the store as the first run left it.
C9_IngestIdempotent ==
    /\ \A p, q \in postsTbl : p.url = q.url => p = q
    /\ \A p \in postsTbl : \A f \in feedsTbl :
          Cardinality(insert_post(postsTbl, f.id, p.url, p.pub_date))
              = Cardinality(postsTbl)
    /\ \A node \in {Fresh, Category("General"), Category("Tech")} :
          \A r \in ResponseMaps :
              LET feeds_list == FeedsForNode(feedsTbl, node)
                  once == RefreshWith(postsTbl, feeds_list, r)
              IN  RefreshWith(once, feeds_list, r) = once

\* Two refreshes ran, both feeds served the URL "u2", and the store holds
\* it once, filed under the feed that was fetched first.
C9_Witness ==
    /\ processed = 2
    /\ Cardinality(postsTbl) = 3
    /\ \E p \in postsTbl : p.url = "u2" /\ p.feed_id = 1

\* Whether every post of the list is a distinct post.
NoRepeat(list) == \A i, j \in 1..Len(list) : list[i] = list[j] => i = j

ListedSet == {posts[i] : i \in 1..Len(posts)}

\* The unread posts the store holds for a category.
UnreadOf(cat) ==
    {p \in postsTbl : /\ ~p.is_read
                      /\ \E f \in feedsTbl : f.id = p.feed_id /\ f.category = cat}

KnownCategories == {CatNames[i] : i \in 1..Len(CatNames)}

\* C4: in every reachable state the selection index is inside the active
\* list, or the list is empty and the index is 0.
C4_SelectionInBounds ==
    \/ selected_index < Len(posts)
    \/ posts = <<>> /\ selected_index = 0

\* Showing the unread digest again found it empty; the index stayed behind.
C4_Witness ==
    /\ active_node = Fresh
    /\ message = "Showing unread only"
    /\ posts = <<>>
    /\ selected_index = 1

\* C7: the list shown for Fresh with show-read off holds, for each category,
\* exactly min(15, unread posts of the category) posts, the newest unread of
\* the category, and nothing else.
C7_FreshDigestExact ==
    (active_node = Fresh /\ ~show_read)
        => /\ NoRepeat(posts)
           /\ ListedSet \subseteq UNION {UnreadOf(cat) : cat \in KnownCategories}
           /\ \A cat \in KnownCategories :
                LET listed == ListedSet \cap UnreadOf(cat)
                IN  /\ Cardinality(listed) = Min(15, Cardinality(UnreadOf(cat)))
                    /\ \A p \in listed : \A q \in UnreadOf(cat) \ listed :
                          p.pub_date >= q.pub_date

\* The program has started on eleven unread General posts and lists ten.
C7_Witness ==
    /\ active_node = Fresh
    /\ ~show_read
    /\ last_fetched = {}
    /\ Cardinality(UnreadOf("General")) = 11
    /\ Len(posts) = 10

\* C8: the list shown for Fresh with show-read off is sorted by publish date,
\* latest first, across the categories, and the posts without a date come
\* after all posts with one.
C8_FreshDigestSorted ==
    (active_node = Fresh /\ ~show_read)
        => \A i, j \in 1..Len(posts) :
              i < j => /\ posts[i].pub_date = NoDate => posts[j].pub_date = NoDate
                       /\ posts[j].pub_date # NoDate
                            => posts[i].pub_date >= posts[j].pub_date

\* A reloaded digest in which a Tech post stands between General posts and a
\* post without date stands last.
C8_Witness ==
    /\ active_node = Fresh
    /\ ~show_read
    /\ Fresh \in last_fetched
    /\ Len(posts) > 3
    /\ posts[Len(posts)].pub_date = NoDate
    /\ \E i, j, k \in 1..Len(posts) :
          /\ i < j /\ j < k
          /\ posts[i].feed_id = 1 /\ posts[j].feed_id = 2 /\ posts[k].feed_id = 1
          /\ posts[i].pub_date > posts[j].pub_date
          /\ posts[j].pub_date > posts[k].pub_date

\* A toggle that clears the flag by which the active view selects.
ClearsViewFlag ==
    /\ message = NoMessage
    /\ \/ active_node = Starred /\ message' = "Removed from Starred"
       \/ active_node = Archived /\ message' = "Unarchived"
       \/ active_node = ReadLater /\ message' = "Removed from Read Later"
       \/ active_node = Fresh /\ ~show_read /\ message' = "Marked as read"

\* C10: a toggle that clears the flag by which the active view selects takes
\* the selected post out of the list in the same step: the other posts stay
\* in their order, and the selection index is clamped into the shorter list.
C10_MembershipRemoval ==
    [][ClearsViewFlag
        => /\ Len(posts') = Len(posts) - 1
           /\ \A i \in 1..Len(posts') :
                posts'[i] = IF i <= selected_index THEN posts[i] ELSE posts[i + 1]
           /\ selected_index' = IF selected_index < Len(posts') THEN selected_index
                                ELSE IF posts' = <<>> THEN 0
                                ELSE Len(posts') - 1]_vars

\* The last of three read-later posts was cleared while Read Later was
\* shown: two posts are left and the index moved onto the new last one.
C10_Witness ==
    /\ active_node = ReadLater
    /\ message = "Removed from Read Later"
    /\ Len(posts) = 2
    /\ selected_index = 1
    /\ Cardinality({p \in postsTbl : p.is_read_later}) = 2

\* The flag a toggle changes, by the message the toggle leaves.
ToggledFlag(msg) ==
    IF msg \in {"Added to Starred", "Removed from Starred"} THEN "is_bookmarked"
    ELSE IF msg \in {"Archived", "Unarchived"} THEN "is_archived"
    ELSE IF msg \in {"Added to Read Later", "Removed from Read Later"}
    THEN "is_read_later"
    ELSE IF msg \in {"Marked as read", "Marked as unread"} THEN "is_read"
    ELSE "none"

\* A step of one of the four flag toggles.
FlagToggled == message = NoMessage /\ ToggledFlag(message') # "none"

PostFlags == {"is_read", "is_bookmarked", "is_archived", "is_read_later"}

\* C11: a flag toggle outside the membership rule (the active node is a
\* category, the flag is set, the flag is not the one the active view selects
\* by, or Fresh is shown with read posts) keeps the length, the order and the
\* selection index of the list; the one change is the toggled flag of the
\* selected post, which is inverted.
C11_ToggleKeepsList ==
    [][FlagToggled /\ ~ClearsViewFlag
        => /\ Len(posts') = Len(posts)
           /\ selected_index' = selected_index
           /\ \A i \in 1..Len(posts) :
                 i # selected_index + 1 => posts'[i] = posts[i]
           /\ LET flag == ToggledFlag(message')
                  old == posts[selected_index + 1]
                  new == posts'[selected_index + 1]
              IN  /\ new[flag] = ~old[flag]
                  /\ new = [old EXCEPT ![flag] = ~@]]_vars

\* The second of three starred posts was unarchived while Starred was shown:
\* it is still second of three and still starred.
C11_Witness ==
    /\ active_node = Starred
    /\ message = "Unarchived"
    /\ Len(posts) = 3
    /\ selected_index = 1
    /\ ~posts[2].is_archived
    /\ posts[2].is_bookmarked
    /\ posts[1].is_archived /\ posts[3].is_archived

\* A step that writes to the store.
StoreWritten == storeVars' # storeVars

\* C12: once an operation of the engine has changed the store (a flag toggle,
\* the opening of an article, a deletion), every count the sidebar holds for
\* a listed node equals the number of posts the store holds for that node.
C12_CountsFollowStore ==
    [][StoreWritten => \A n \in ListedNodes' : counts'[n] = Tally(n)]_vars

\* An article was opened from the Starred view: the store holds one unread
\* post fewer than the sidebar counts for Fresh.
C12_Witness ==
    /\ active_node = Starred
    /\ focus = "Article"
    /\ counts[Fresh] = Cardinality({p \in postsTbl : ~p.is_read}) + 1

\* A step of an operation whose write to the store returned Err.
WriteFailed ==
    \/ OpenArticleWriteFails
    \/ ToggleBookmarkWriteFails
    \/ ToggleArchivedWriteFails
    \/ ToggleReadWriteFails
    \/ ConfirmDeletePostFails

\* C13: an operation whose store write fails changes nothing in the engine:
\* the active list with the flags of its posts, the selection index and the
\* sidebar counts are as before.
C13_FailedWriteNoOp ==
    [][WriteFailed => UNCHANGED <<posts, selected_index, counts>>]_vars

\* The write of a bookmark toggle failed under Starred: both posts are still
\* starred in the store, and the list has lost one of them.
C13_Witness ==
    /\ active_node = Starred
    /\ message = "Removed from Starred"
    /\ Len(posts) = 1
    /\ Cardinality({p \in postsTbl : p.is_bookmarked}) = 2
    /\ counts[Starred] = 2

\* The dialog of a post deletion is closed by this step.
PostDialogClosed ==
    /\ input_mode.kind = "Confirming"
    /\ input_mode.action.kind = "DeletePost"
    /\ input_mode' = Normal

\* C14: the step that closes the dialog of a post deletion either deletes
\* from the store exactly the post recorded with the request, takes exactly
\* that post out of the active list (whatever the list holds by then) and
\* clamps the selection index into the list, or it leaves the store, the
\* list and the index as they were (the store delete failed, or the user
\* declined).
C14_DeletesCapturedPost ==
    [][PostDialogClosed
        => LET id == input_mode.action.id
           IN  IF postsTbl' # postsTbl
               THEN /\ postsTbl' = {p \in postsTbl : p.id # id}
                    /\ posts' = SelectSeq(posts, LAMBDA p : p.id # id)
                    /\ selected_index' =
                           IF selected_index >= Len(posts') /\ posts' # <<>>
                           THEN Len(posts') - 1 ELSE selected_index
                    /\ message' = "Post deleted"
               ELSE UNCHANGED <<posts, selected_index>>]_vars

\* The old post of feed "fa" was deleted after the refresh had brought newer
\* posts: the store and the list hold the newer posts and not the old one.
C14_Witness ==
    /\ message = "Post deleted"
    /\ Fresh \in last_fetched
    /\ active_node = Fresh
    /\ \A p \in postsTbl : p.id # 1
    /\ \E p \in postsTbl : p.url = "u1"
    /\ Len(posts) >= 2
    /\ \A i \in 1..Len(posts) : posts[i].id # 1

\* The deletion of post 1 is pending, the refresh has completed since the
\* request, and the selection is on another post.
C14_WitnessPending ==
    /\ input_mode = Confirming(DeletePost(1))
    /\ message = "Feeds updated"
    /\ HasSelected
    /\ SelectedPost.id # 1
    /\ \E i \in 1..Len(posts) : posts[i].id = 1

\* C15: while a confirmation is pending, a key other than y/Y, n/N and Esc
\* changes nothing: no step of such a key leads to a state that differs in
\* the input mode, the store, the active node, the list, the selection
\* index, the focus, the sidebar or anything else.
C15_OtherKeysSwallowed ==
    input_mode.kind = "Confirming" => ~ENABLED (ConfirmOtherKey /\ vars' # vars)

\* The deletion of post 2 is pending under the message of a completed
\* refresh: the key goes to the dialog, not to the dismissal of the message.
C15_Witness ==
    /\ input_mode = Confirming(DeletePost(2))
    /\ message = "Feeds updated"
    /\ ENABLED ConfirmOtherKey
    /\ ~ENABLED DismissMessage

\* A step into the dialog: from normal mode, for the selected post of the
\* list or for the category under the sidebar cursor.
DialogEntry ==
    (input_mode.kind # "Confirming" /\ input_mode'.kind = "Confirming")
        => /\ input_mode = Normal
           /\ \/ /\ focus = "Posts"
                 /\ HasSelected
                 /\ input_mode'.action = DeletePost(SelectedPost.id)
              \/ /\ focus = "Sidebar"
                 /\ section = "Categories"
                 /\ category_index < Len(categories)
                 /\ input_mode'.action =
                        DeleteCategory(categories[category_index + 1])
           /\ UNCHANGED <<storeVars, posts, selected_index>>

\* A step out of the dialog: to normal mode; the recorded action is applied
\* to the store once, or the posts, the categories and the list are left as
\* they were.
DialogExit ==
    (input_mode.kind = "Confirming" /\ input_mode' # input_mode)
        => /\ input_mode' = Normal
           /\ LET a == input_mode.action
              IN  \/ UNCHANGED <<postsTbl, catsTbl, posts, selected_index>>
                  \/ /\ a.kind = "DeletePost"
                     /\ postsTbl' = {p \in postsTbl : p.id # a.id}
                     /\ UNCHANGED <<feedsTbl, catsTbl>>
                  \/ /\ a.kind = "DeleteCategory"
                     /\ catsTbl' = catsTbl \ {a.name}
                     /\ feedsTbl' = {IF f.category = a.name
                                     THEN [f EXCEPT !.category = "General"]
                                     ELSE f : f \in feedsTbl}
                     /\ UNCHANGED postsTbl

PostIds(P) == {p.id : p \in P}

\* A post leaves the store only as the recorded post of a pending dialog.
PostDeleteConfirmed ==
    PostIds(postsTbl) \ PostIds(postsTbl') # {}
        => /\ input_mode.kind = "Confirming"
           /\ input_mode.action.kind = "DeletePost"
           /\ PostIds(postsTbl) \ PostIds(postsTbl') = {input_mode.action.id}

\* A category leaves the store only as the recorded category of a pending
\* dialog.
CategoryDeleteConfirmed ==
    catsTbl \ catsTbl' # {}
        => /\ input_mode.kind = "Confirming"
           /\ input_mode.action.kind = "DeleteCategory"
           /\ catsTbl \ catsTbl' = {input_mode.action.name}

\* C16: the dialog is entered only from normal mode by a delete request on
\* the selected post or category, and left only to normal mode with the
\* recorded action applied once or with store and list unchanged; and no
\* post and no category is deleted from the store unless the dialog for that
\* very post or category is pending.
C16_ConfirmedDeletesOnly ==
    [][/\ DialogEntry
       /\ DialogExit
       /\ PostDeleteConfirmed
       /\ CategoryDeleteConfirmed]_vars

\* The dialog by itself keeps to its protocol, and categories are deleted
\* through it only.
C16_DialogProtocol ==
    [][DialogEntry /\ DialogExit /\ CategoryDeleteConfirmed]_vars

\* Posts are deleted through the dialog only, but for the steps of the feed
\* editor.
C16_PostsBesideEditor ==
    [][input_mode.kind # "EditingCategoryFeeds" => PostDeleteConfirmed]_vars

\* The feed of Tech was deleted in the feed editor: its post has left the
\* store without a dialog, and the unread digest still lists it.
C16_Witness ==
    /\ message = "Deleted feed: fb"
    /\ input_mode = Normal
    /\ \A p \in postsTbl : p.feed_id # 2
    /\ \E i \in 1..Len(posts) : posts[i].feed_id = 2

\* The sidebar cursor is on the category General.
CursorOnGeneral ==
    /\ section = "Categories"
    /\ category_index < Len(categories)
    /\ categories[category_index + 1] = "General"

\* A step of 'd' in the sidebar that ends in the rejection message.
DeleteRejected ==
    /\ message = NoMessage
    /\ message' = "Cannot delete 'General' category"

\* C17: the deletion of the category General is never pending; the delete
\* request with the cursor on General, and no other step, sets the rejection
\* message, and it changes nothing but the message.  With the cursor on
\* General no step enters the dialog.
C17_GeneralNeverPending ==
    /\ [](input_mode # Confirming(DeleteCategory("General")))
    /\ [][DeleteRejected
            => /\ CursorOnGeneral
               /\ input_mode = Normal /\ focus = "Sidebar"
               /\ UNCHANGED <<storeVars, posts, focus, active_node,
                              selected_index, is_loading, input_mode,
                              show_read, exit, sidebarVars, runtimeVars,
                              editorVars, lock>>]_vars
    /\ [][(CursorOnGeneral /\ focus = "Sidebar")
            => input_mode'.kind # "Confirming"]_vars

\* The delete request on General was refused: the message is shown, the
\* mode is normal and General is still in the store.
C17_Witness ==
    /\ message = "Cannot delete 'General' category"
    /\ input_mode = Normal
    /\ CursorOnGeneral
    /\ "General" \in catsTbl

\* The elements of a list of names.
Names(cats) == {cats[i] : i \in 1..Len(cats)}

\* C18: in every reachable state the category list the store returns and
\* the category list the sidebar holds are non-empty and contain General.
C18_GeneralListed ==
    /\ "General" \in Names(get_categories(catsTbl, feedsTbl))
    /\ "General" \in Names(categories)

\* Both other categories and both feeds have been deleted: General is the
\* one name the store returns and the one category the sidebar lists.
C18_Witness ==
    /\ feedsTbl = {}
    /\ catsTbl = {"General"}
    /\ categories = <<"General">>
    /\ Fresh \in last_fetched

\* The step of 'y' that deleted the category of the pending dialog.
CategoryDeletionDone ==
    /\ input_mode.kind = "Confirming"
    /\ input_mode.action.kind = "DeleteCategory"
    /\ message' = CategoryDeleted(input_mode.action.name)

\* C19: a confirmed deletion of a category refiles every feed of the
\* category under General and leaves the other feeds as they are; the name
\* is gone from the list the store returns and from the list of the
\* sidebar, the other names stay; the feeds are the same feeds and the posts
\* table is untouched.
C19_CategoryDeletion ==
    [][CategoryDeletionDone
        => LET name == input_mode.action.name
           IN  /\ name # "General"
               /\ {f.id : f \in feedsTbl'} = {f.id : f \in feedsTbl}
               /\ Cardinality(feedsTbl') = Cardinality(feedsTbl)
               /\ \A f \in feedsTbl : \E g \in feedsTbl' :
                     /\ g.id = f.id /\ g.url = f.url
                     /\ g.category = IF f.category = name THEN "General"
                                     ELSE f.category
               /\ postsTbl' = postsTbl
               /\ Names(get_categories(catsTbl', feedsTbl'))
                      = Names(get_categories(catsTbl, feedsTbl)) \ {name}
               /\ Names(categories') = Names(categories) \ {name}
               /\ input_mode' = Normal]_vars

\* Tech was deleted: its feed is filed under General, its post is still in
\* the store, and the sidebar lists General and Work.
C19_Witness ==
    /\ message = "Category 'Tech' deleted"
    /\ \E f \in feedsTbl : f.id = 2 /\ f.category = "General"
    /\ \E p \in postsTbl : p.feed_id = 2
    /\ catsTbl = {"General", "Work"}
    /\ categories = <<"General", "Work">>
    /\ counts[Category("General")] = 2

\* The sidebar cursor is on the last smart view.
OnLastSmartView ==
    section = "SmartViews" /\ smart_view_index = Len(SmartViewsAll) - 1

\* C20: with the cursor on the last smart view, move-next yields the first
\* category when the category list is non-empty, and yields the cursor as it
\* is when the list is empty.
C20_NextAtLastSmartView ==
    OnLastSmartView
        => LET moved == sidebar_next(section, smart_view_index, category_index,
                                     categories)
           IN  IF categories # <<>>
               THEN moved = Cursor("Categories", smart_view_index, 0)
               ELSE moved = Cursor(section, smart_view_index, category_index)

\* The half of C20 for a non-empty category list.
C20_NextIntoCategories ==
    (OnLastSmartView /\ categories # <<>>)
        => sidebar_next(section, smart_view_index, category_index, categories)
               = Cursor("Categories", smart_view_index, 0)

\* Move-next was applied on the last smart view of a sidebar without
\* categories: the cursor is in the categories section, on no category.
C20_Witness ==
    /\ categories = <<>>
    /\ section = "Categories"
    /\ category_index = 0
    /\ smart_view_index = Len(SmartViewsAll) - 1

\* The cursor as it is, and the cursor one position further (d = 1) or one
\* position back (d = -1) in its section.
Here == Cursor(section, smart_view_index, category_index)

Shifted(d) ==
    IF section = "SmartViews"
    THEN Cursor(section, smart_view_index + d, category_index)
    ELSE Cursor(section, smart_view_index, category_index + d)

OnFirstSmartView == section = "SmartViews" /\ smart_view_index = 0
OnFirstCategory == section = "Categories" /\ category_index = 0
OnLastCategory ==
    section = "Categories" /\ category_index >= Len(categories) - 1

MovedNext ==
    sidebar_next(section, smart_view_index, category_index, categories)

MovedPrevious ==
    sidebar_previous(section, smart_view_index, category_index, categories)

\* Move-previous as the claim C21 has it.
PreviousNeverWraps ==
    MovedPrevious =
        IF OnFirstCategory
        THEN Cursor("SmartViews", Len(SmartViewsAll) - 1, category_index)
        ELSE IF OnFirstSmartView THEN Here
        ELSE Shifted(-1)

\* C21 as stated: move-previous on the first category lands on the last
\* smart view; move-previous on the first smart view and move-next on the
\* last category are no-ops; every other move shifts the cursor by one
\* position within its section.
C21_NoWrapAsStated ==
    /\ PreviousNeverWraps
    /\ MovedNext = IF OnLastCategory THEN Here ELSE Shifted(1)

\* C21, amended: as stated, but for move-next on the last smart view, which
\* leaves the section and enters the categories section at index 0.
C21_NoWrap ==
    /\ PreviousNeverWraps
    /\ MovedNext = IF OnLastCategory THEN Here
                   ELSE IF OnLastSmartView
                   THEN Cursor("Categories", smart_view_index, 0)
                   ELSE Shifted(1)

\* The cursor is on the last of three categories, where move-next stops.
C21_Witness ==
    /\ Len(categories) = 3
    /\ section = "Categories"
    /\ category_index = 2
    /\ MovedNext = Here
    /\ MovedPrevious = Cursor("Categories", smart_view_index, 1)

\* A step that moves the sidebar cursor.
CursorMoved == cursorVars' # cursorVars

\* C22: a step that moves the sidebar cursor changes nothing else: the
\* active node, the post list, the selection index and the store stay as
\* they are, and so does the rest of the state.
C22_MoveChangesOnlyCursor ==
    [][CursorMoved =>
          UNCHANGED <<active_node, posts, selected_index, storeVars,
                      focus, message, is_loading, input_mode, show_read,
                      categories, counts, last_fetched>>]_vars

\* The cursor was moved into the categories while Fresh, with its posts,
\* stayed the active node.
C22_Witness ==
    /\ section = "Categories"
    /\ category_index = 1
    /\ selected_node(section, smart_view_index, category_index, categories)
           # active_node
    /\ active_node = Fresh
    /\ posts # <<>>
    /\ posts = Materialize(Fresh, show_read, postsTbl, feedsTbl, catsTbl)

\* The article view is open on a post of the unread-only digest.
ReadingFresh ==
    /\ focus = "Article"
    /\ active_node = Fresh
    /\ ~show_read
    /\ HasSelected

\* C23: while the article view stays open on a post of the unread-only
\* digest, that post, marked read in the store and in the list, stays in the
\* list at the same position.
C23_ReadPostStaysWhileOpen ==
    [][(ReadingFresh /\ focus' = "Article")
          => /\ selected_index' = selected_index
             /\ HasSelected'
             /\ SelectedPost'.id = SelectedPost.id]_vars

\* The article view is open on a post that the list no longer holds at the
\* selection: the refresh completed and reloaded the list under the reader.
C23_Witness ==
    /\ focus = "Article"
    /\ active_node = Fresh
    /\ ~show_read
    /\ processed = 1
    /\ \A i \in 1..Len(posts) : ~posts[i].is_read
    /\ \E p \in postsTbl : p.is_read

\* The refreshes launched whose notification the event loop has not yet
\* processed, and the nodes they were launched for.
Outstanding == launched - processed

RefreshingNodes ==
    {tasks[t].node : t \in InFlight(tasks)} \cup {queue[k] : k \in 1..Len(queue)}

\* At most one refresh is outstanding.
OneOutstanding == Outstanding <= 1

\* 'r' is pressed in the post list of a node while the one outstanding
\* refresh is for another node (and the bounds of the model leave room for a
\* second task).
RefreshOfOtherNodeAsked ==
    /\ NormalKey("Posts")
    /\ Outstanding = 1
    /\ active_node \notin RefreshingNodes
    /\ CanSpawn(tasks)
    /\ launched < MaxLaunches

\* C24: refreshes for different nodes can be in flight at the same time:
\* while a refresh for one node is outstanding, a refresh requested for
\* another node is launched.
C24_RefreshWhileLoading == RefreshOfOtherNodeAsked => ENABLED RequestRefresh

\* The startup refresh for Fresh has fetched a feed and is still running
\* while the user stands in the post list of a category; 'r' finds the
\* loading flag set.
C24_Witness ==
    /\ RefreshOfOtherNodeAsked
    /\ is_loading
    /\ active_node.kind = "Category"
    /\ \E t \in TaskIds : tasks[t].pc # "idle" /\ tasks[t].node = Fresh

\* A step that activates another node: select_sidebar_item is the only
\* assignment to active_node.
NodeActivated == active_node' # active_node

\* C25: activating a node that has no recorded refresh launches a background
\* refresh for that node.
C25_SelectLaunchesRefresh ==
    [][(NodeActivated /\ active_node' \notin last_fetched)
          => /\ launched' = launched + 1
             /\ \E t \in TaskIds : /\ tasks[t].pc = "idle"
                                   /\ tasks'[t] = SpawnedTask(active_node')]_vars

\* A category that was never refreshed is the active node, no refresh is
\* outstanding and none was launched for it.
C25_Witness ==
    /\ active_node.kind = "Category"
    /\ active_node \notin last_fetched
    /\ last_fetched = {Fresh}
    /\ Outstanding = 0
    /\ launched = 1
    /\ ~is_loading

\* C26: every key of the sidebar count map and of the staleness map is one
\* of the four smart views or a category of the current category list; keys
\* of deleted categories do not remain.
C26_MapKeysListed ==
    /\ DOMAIN counts \subseteq ListedNodes
    /\ last_fetched \subseteq ListedNodes

\* The category Tech was deleted and left the list; its count is still in
\* the map.
C26_Witness ==
    /\ Category("Tech") \notin CategoryNodes(categories)
    /\ "Tech" \notin catsTbl
    /\ Category("Tech") \in DOMAIN counts
    /\ message = CategoryDeleted("Tech")

\* The stored posts a node is to show: those with the node's flag, those of
\* the node's category, and all of them under Fresh with show-read on.
ViewMatches(node) ==
    IF node = Starred THEN {p \in postsTbl : p.is_bookmarked}
    ELSE IF node = ReadLater THEN {p \in postsTbl : p.is_read_later}
    ELSE IF node = Archived THEN {p \in postsTbl : p.is_archived}
    ELSE IF node = Fresh THEN postsTbl
    ELSE {p \in postsTbl :
             \E f \in feedsTbl : f.id = p.feed_id /\ f.category = node.name}

\* list holds the newest posts of M, at most PostLimit of them, each once,
\* newest first.
NewestWindow(list, M) ==
    /\ Len(list) = Min(PostLimit, Cardinality(M))
    /\ \A i \in 1..Len(list) : list[i] \in M
    /\ \A i, j \in 1..Len(list) :
          i < j => /\ list[i].id # list[j].id
                   /\ list[i].pub_date >= list[j].pub_date
    /\ \A q \in M \ {list[i] : i \in 1..Len(list)} :
          \A i \in 1..Len(list) : list[i].pub_date >= q.pub_date

C28_VisitsFeedsOfLaunch ==
    [][\A t \in TaskIds :
          /\ (tasks[t].pc = "spawned" /\ tasks'[t].pc = "running")
                => tasks'[t].feeds_list = tasks[t].launch_feeds
          /\ (tasks[t].pc = "running" /\ tasks'[t].pc = "running")
                => \/ tasks'[t].feeds_list = tasks[t].feeds_list
                   \/ /\ tasks[t].feeds_list # <<>>
                      /\ tasks'[t].feeds_list = Tail(tasks[t].feeds_list)]_vars

\* A task launched with 'r' has just read its feeds (none was fetched yet)
\* and the list is shorter than the one of the store at its launch: a feed
\* was deleted in between.
C28_Witness ==
    \E t \in TaskIds :
        /\ launched = 2
        /\ processed = 1
        /\ tasks[t].pc = "running"
        /\ tasks[t].failed = {}
        /\ tasks[t].launch_feeds # <<>>
        /\ Len(tasks[t].feeds_list) < Len(tasks[t].launch_feeds)
        /\ tasks[t].feeds_list = FeedsForNode(feedsTbl, tasks[t].node)

\* A step of the interactive loop that reads or writes the store, as far as
\* the state shows it: the list, the sidebar or the posts table changes and
\* no task moves.
LoopStoreStep ==
    /\ tasks' = tasks
    /\ \/ posts' # posts
       \/ counts' # counts
       \/ categories' # categories
       \/ storeVars' # storeVars

\* A step of a task that writes the store.
TaskStoreStep == tasks' # tasks /\ storeVars' # storeVars

\* C29: store operations of the interactive loop and of the tasks exclude
\* each other, and a task holds the lock only to read its feed list and to
\* ingest the entries of a completed fetch, never while a fetch is
\* outstanding, so the loop finds the lock free during a fetch.
C29_StoreLockDiscipline ==
    /\ [](Cardinality(lock) <= 1)
    /\ [](\A t \in TaskIds : t \in lock <=> tasks[t].pc \in {"snapshot", "ingest"})
    /\ [](\A t \in TaskIds : tasks[t].pc = "fetching" => t \notin lock)
    /\ []((\A t \in InFlight(tasks) : tasks[t].pc = "fetching") => db_lock)
    /\ [][LoopStoreStep => lock = Unlocked /\ lock' = Unlocked]_vars
    /\ [][TaskStoreStep
            => \E t \in TaskIds : /\ lock = {t}
                                  /\ tasks[t].pc = "ingest"
                                  /\ lock' = Unlocked]_vars

\* The task awaits the fetch of its second feed, the lock is free, and the
\* interactive loop has meanwhile listed the posts of the first feed and
\* marked one of them read.
C29_Witness ==
    /\ lock = Unlocked
    /\ focus = "Article"
    /\ \E p \in postsTbl : p.is_read
    /\ \E t \in TaskIds : /\ tasks[t].pc = "fetching"
                          /\ Len(tasks[t].feeds_list) = 1

\* A step that materializes the active list again: a completion for the
\* active node is processed, or the show-read toggle is switched.
Rematerialized ==
    \/ processed' # processed /\ Head(queue) = active_node
    \/ show_read' # show_read

StillListed == \E i \in 1..Len(posts') : posts'[i].id = SelectedPost.id

\* C30: when the active list is materialized again and the post selected
\* before is in the new list, the selection index refers to that post
\* afterwards.
C30_SelectionFollowsPost ==
    [][(Rematerialized /\ HasSelected /\ StillListed)
          => /\ HasSelected'
             /\ SelectedPost'.id = SelectedPost.id]_vars

\* The state after a completion that brought a newer post into the list
\* above the selection: the index is the old one.
C30_Witness ==
    /\ processed = 1
    /\ message = "Feeds updated"
    /\ active_node = Fresh
    /\ selected_index = 1
    /\ Len(posts) = 3
    /\ posts[2].feed_id = 2
    /\ posts[3].feed_id = 1

\* Q keeps every row of P as it is, and the rows it adds have no flag set.
KeepsRows(P, Q) ==
    /\ P \subseteq Q
    /\ \A q \in Q \ P : /\ ~q.is_read
                        /\ ~q.is_bookmarked
                        /\ ~q.is_archived
                        /\ ~q.is_read_later

\* Every entry either feed may serve, inserted into the store as it stands.
InsertKeepsRows ==
    \A f \in FeedRows : \A e \in EntryPool("fa") \cup EntryPool("fb") :
        LET inserted == insert_post(postsTbl, f.id, EntryUrl(e), EntryPubDate(e))
        IN  /\ KeepsRows(postsTbl, inserted)
            /\ (\E p \in postsTbl : p.url = EntryUrl(e)) => inserted = postsTbl

\* C31: ingest never changes a stored post: inserting an entry whose URL is
\* stored leaves the row as it is (flags, date, owning feed), and a row that
\* ingest adds has all four flags false; so does every step of a task.
C31_IngestKeepsPosts ==
    /\ []InsertKeepsRows
    /\ [][tasks' # tasks => KeepsRows(postsTbl, postsTbl')]_vars

\* The post of URL u2, ingested from feed fa and read since, is in the store
\* while the task holds the lock to ingest what feed fb served, u2 among it.
C31_Witness ==
    /\ \E p \in postsTbl : p.url = "u2" /\ p.feed_id = 1 /\ p.is_read
    /\ \E t \in TaskIds : /\ tasks[t].pc = "ingest"
                          /\ Head(tasks[t].feeds_list).url = "fb"

\* C32: in every reachable state the loading flag is set exactly when one
\* launched refresh task has a completion that was not yet processed and
\* clear exactly when there is none; while the flag is set a refresh request
\* launches nothing, so at most one task is in flight and the completion
\* queue never holds more than one notification.
C32_LoadingTracksRefresh ==
    /\ is_loading <=> Outstanding = 1
    /\ ~is_loading <=> Outstanding = 0
    /\ is_loading => ~ENABLED RequestRefresh
    /\ Cardinality(InFlight(tasks)) <= 1
    /\ Len(queue) <= 1
    /\ Len(queue) <= QueueCapacity

C32_Witness ==
    /\ is_loading
    /\ NormalKey("Posts")
    /\ CanSpawn(tasks)
    /\ launched = 1
    /\ processed = 0
    /\ Len(queue) = 1
    /\ feedsTbl = FeedRows
    /\ Imported(2) = "Imported 2 feeds!"

FeedIds(F) == {f.id : f \in F}

SnapshottedFeeds ==
    UNION {{tasks[t].feeds_list[k].id : k \in 1..Len(tasks[t].feeds_list)} :
              t \in {i \in TaskIds : tasks[i].pc = "running"}}

\* C33: in every reachable state every stored post belongs to a stored feed,
\* also when a feed is deleted with its posts while a refresh task that read
\* it in its feed list is still in flight; so the Fresh count, which counts
\* the unread rows of posts, counts no post that the views (which join
\* feeds) cannot show.
C33_PostsHaveFeeds == \A p \in postsTbl : p.feed_id \in FeedIds(feedsTbl)

\* A feed is deleted while a running task still has it to fetch.
C33_Witness ==
    /\ SnapshottedFeeds \ FeedIds(feedsTbl) # {}
    /\ \A p \in postsTbl : p.feed_id \in FeedIds(feedsTbl)

ArticleStaysOpen == focus = "Article" /\ focus' = "Article"

\* C34: while the article view is open the post at the selection index is
\* the post that was opened, so every flag toggle issued from the article
\* view reaches that post, also when a refresh completion or a removal by
\* the membership rule of the view changes the list meanwhile: no step that
\* leaves the article view open changes the post under the selection.
C34_ArticleKeepsPost ==
    [][ArticleStaysOpen
          => /\ HasSelected
             /\ HasSelected'
             /\ SelectedPost'.id = SelectedPost.id]_vars

\* The article view is open and the post under the selection has not been
\* opened: open_article marks the opened post read in the list.
C34_Witness ==
    /\ focus = "Article"
    /\ HasSelected
    /\ ~SelectedPost.is_read

\* C35: in every reachable state the sidebar cursor designates an existing
\* entry: in the smart-view section the index is below the number of smart
\* views, and in the categories section the category index is below the
\* length of the category list, also after a category was deleted and the
\* list reloaded; so the selected node is never the fallback for a cursor
\* on no category.
C35_CursorOnEntry ==
    /\ section = "SmartViews" => smart_view_index < Len(SmartViewsAll)
    /\ section = "Categories" => category_index < Len(categories)
    /\ selected_node(section, smart_view_index, category_index, categories)
           \in ListedNodes

\* The last category of the list was deleted with the cursor on it.
C35_Witness ==
    /\ section = "Categories"
    /\ category_index = Len(categories)
    /\ input_mode = Normal
    /\ \E name \in {"Tech", "Work"} : message = CategoryDeleted(name)
    /\ selected_node(section, smart_view_index, category_index, categories)
           = Fresh

SameFlags(p, q) ==
    /\ p.is_read = q.is_read
    /\ p.is_bookmarked = q.is_bookmarked
    /\ p.is_archived = q.is_archived
    /\ p.is_read_later = q.is_read_later

\* C36: provided no store operation fails, in every reachable state every
\* post of the active list that is still in the store (a row with its id and its URL)
\* has in memory the read, bookmarked, archived and read-later flags that
\* the store holds for it.
C36_ListFlagsAreStored ==
    \A i \in 1..Len(posts) :
        \A p \in postsTbl :
            (p.id = posts[i].id /\ p.url = posts[i].url) => SameFlags(posts[i], p)

\* The same for a store in which every post has its feed, taking the URL
\* alone as the identity of a post.
C36_ByUrl ==
    (\A q \in postsTbl : q.feed_id \in FeedIds(feedsTbl))
        => \A i \in 1..Len(posts) :
               \A p \in postsTbl : p.url = posts[i].url => SameFlags(posts[i], p)

\* A feed was deleted in the feed editor and a post of it, still listed, has
\* been ingested again: the store holds it with the flags of a new row.
C36_Witness ==
    /\ input_mode = Normal
    /\ \E i \in 1..Len(posts) :
          \E p \in postsTbl :
              /\ p.id = posts[i].id
              /\ p.url = posts[i].url
              /\ posts[i].is_bookmarked
              /\ ~p.is_bookmarked

\* C37: after a feed was deleted, from the confirmation dialog or from the
\* category feed editor, once the input mode is normal again the active list
\* holds no post of the deleted feed: every post of the active list is a
\* post of the store.
C37_ListedPostsStored ==
    input_mode = Normal
        => \A i \in 1..Len(posts) : \E p \in postsTbl : p.id = posts[i].id

\* The only feed of a category was deleted in the editor, which closed by
\* itself.
C37_Witness ==
    /\ input_mode = Normal
    /\ \E f \in FeedRows : f \notin feedsTbl /\ message = FeedDeleted(f)
    /\ category_feeds = <<>>
    /\ \E i \in 1..Len(posts) : posts[i].feed_id \notin FeedIds(feedsTbl)

\* C38: whenever the active node is Fresh with show-read off and the article
\* view is not open, the active list holds no post whose read flag is set,
\* whichever way the article view was left.
C38_FreshListsUnread ==
    (active_node = Fresh /\ ~show_read /\ focus # "Article")
        => \A i \in 1..Len(posts) : ~posts[i].is_read

\* The article view was left with Tab: the focus is on the sidebar and the
\* opened post is still listed.
C38_Witness ==
    /\ active_node = Fresh
    /\ ~show_read
    /\ focus = "Sidebar"
    /\ HasSelected
    /\ SelectedPost.is_read
    /\ \E p \in postsTbl : p.id = SelectedPost.id /\ p.is_read

\* C39: in every reachable state the active node is one of the four smart
\* views or a category of the current category list; deleting the category
\* that is active does not leave the view on a node that is gone.
C39_ActiveNodeListed == active_node \in ListedNodes

\* The active category was deleted.
C39_Witness ==
    /\ active_node.kind = "Category"
    /\ message = CategoryDeleted(active_node.name)
    /\ active_node.name \notin catsTbl
    /\ input_mode = Normal

====
